---- MODULE Spec2Model ----
(***************************************************************************)
(* BizTrack Pro: the profit-and-loss engine (src/utils/plEngine.js, kept   *)
(* in src/unnamed/part_000 from line 33 on).                               *)
(*                                                                         *)
(* computePL is a synchronous function of three arrays, a settings object  *)
(* and the wall clock; computeDashboardKPIs one of the sales, the expenses *)
(* and the inventory.  The model keeps the arrays a caller holds, the wall *)
(* clock, the properties the program has added to Object.prototype, and    *)
(* the outcome of the last call of each function.  JavaScript values are   *)
(* modelled with their dynamic type, so that `x || 0`, `+` on strings,     *)
(* property lookup through Object.prototype and the key order of           *)
(* Object.entries behave as they do in the language.                       *)
(*                                                                         *)
(* The later sections model the record store (src/src/utils/database.js),  *)
(* the file manager (src/fileManager.js) and the figures the report        *)
(* renderers compute (pdfReceipt.js, excelExport.js in part_001).          *)
(*                                                                         *)
(* Numbers are integers here (amounts in minor currency units); IEEE-754   *)
(* rounding of fractional amounts is outside the model.  Time is counted   *)
(* in hours from midnight UTC of Calendar[1].                              *)
(***************************************************************************)
EXTENDS Integers, Sequences, FiniteSets, TLC

VARIABLES
  sales,      \* the sales array passed to the engine
  expenses,   \* the expenses array
  returns,    \* the returns array
  passed,     \* the parameters the caller passes (the others default)
  clock,      \* the wall clock read by `new Date()`
  call,       \* outcome of the last computePL call: none, returned or threw
  inventory,  \* the inventory array passed to the dashboard
  settings,   \* the settings object passed to computePL
  proto,      \* the properties added to Object.prototype, in insertion order
  kpi,        \* outcome of the last computeDashboardKPIs call
  rows,       \* the tables of the database, each a list of rows
  db,         \* database.js: the module-level connection handle
  tasks,      \* the calls of database.js that are between two awaits
  ret,        \* how the last completed call of database.js ended
  fm,         \* fileManager.js: the saveAndShare call and the device
  shown       \* the figures of the last report rendered

engineVars ==
  <<sales, expenses, returns, passed, call, inventory, settings, proto, kpi>>

appVars == <<rows, db, tasks, ret, fm, shown>>

vars ==
  <<sales, expenses, returns, passed, clock, call, inventory, settings, proto,
    kpi, rows, db, tasks, ret, fm, shown>>

(***************************************************************************)
(* JavaScript values.  Every value is a record of the same shape so that   *)
(* values of different dynamic types can be compared.                      *)
(***************************************************************************)
Num(i) == [t |-> "number", n |-> i, s |-> ""]
NaN == [t |-> "number", n |-> 0, s |-> "NaN"]
Str(x) == [t |-> "string", n |-> 0, s |-> x]
Undefined == [t |-> "undefined", n |-> 0, s |-> ""]
\* a built-in function or object reached through the prototype chain;
\* s is the text it converts to
Builtin(x) == [t |-> "object", n |-> 0, s |-> x]

IsNaN(v) == v.t = "number" /\ v.s = "NaN"
IsNum(v) == v.t = "number" /\ v.s = ""

\* the integer a field holds, 0 when it holds none
Amount(v) == IF IsNum(v) THEN v.n ELSE 0

\* ToBoolean: undefined, 0, NaN and '' are falsy
Truthy(v) ==
  CASE v.t = "number" -> ~IsNaN(v) /\ v.n # 0
    [] v.t = "string" -> v.s # ""
    [] v.t = "undefined" -> FALSE
    [] v.t = "boolean" -> v.n # 0
    [] OTHER -> TRUE

\* a || b
Or(a, b) == IF Truthy(a) THEN a ELSE b

Digits == <<"0", "1", "2", "3", "4", "5", "6", "7", "8", "9">>
Range(xs) == {xs[i] : i \in 1..Len(xs)}
DigitVal(c) ==
  IF \E d \in 1..10 : Digits[d] = c
  THEN (CHOOSE d \in 1..10 : Digits[d] = c) - 1
  ELSE -1

\* value of a non-empty string of decimal digits, -1 for anything else
DigitsStep(acc, d) == IF acc < 0 \/ d < 0 THEN -1 ELSE acc * 10 + d
DigitsValue(x) ==
  LET F[i \in 0..Len(x)] ==
        IF i = 0 THEN 0 ELSE DigitsStep(F[i - 1], DigitVal(SubSeq(x, i, i)))
  IN IF x = "" \/ \E i \in 1..Len(x) : SubSeq(x, i, i) \notin Range(Digits)
     THEN -1
     ELSE F[Len(x)]

Zero == Num(0)

\* StringToNumber for integer literals: '' is 0, '-12' is -12, 'abc' is NaN
Signed(sign, d) == IF d < 0 THEN NaN ELSE Num(sign * d)
StringToNumber(x) ==
  IF x = "" THEN Zero
  ELSE IF SubSeq(x, 1, 1) = "-" THEN Signed(-1, DigitsValue(Tail(x)))
  ELSE Signed(1, DigitsValue(x))

ToNumber(v) ==
  CASE v.t = "number" -> v
    [] v.t = "string" -> StringToNumber(v.s)
    [] OTHER -> NaN

\* ToString of a value
ToStr(v) ==
  CASE v.t = "number" -> (IF IsNaN(v) THEN "NaN" ELSE ToString(v.n))
    [] v.t = "undefined" -> "undefined"
    [] OTHER -> v.s

\* arithmetic on numbers: NaN is contagious
NumPlus(x, y) == IF IsNaN(x) \/ IsNaN(y) THEN NaN ELSE Num(x.n + y.n)
NumMinus(x, y) == IF IsNaN(x) \/ IsNaN(y) THEN NaN ELSE Num(x.n - y.n)
NumTimes(x, y) == IF IsNaN(x) \/ IsNaN(y) THEN NaN ELSE Num(x.n * y.n)
NumGt(x, y) == ~IsNaN(x) /\ ~IsNaN(y) /\ x.n > y.n

\* a + b: concatenation as soon as one operand is not a number
Plus(a, b) ==
  IF a.t \in {"string", "object"} \/ b.t \in {"string", "object"}
  THEN Str(ToStr(a) \o ToStr(b))
  ELSE NumPlus(ToNumber(a), ToNumber(b))

\* a - b and a * b convert both operands to numbers
Minus(a, b) == NumMinus(ToNumber(a), ToNumber(b))
Times(a, b) == NumTimes(ToNumber(a), ToNumber(b))

\* a > b and a < b on numbers: false when either side is NaN
Gt(a, b) == NumGt(ToNumber(a), ToNumber(b))
Lt(a, b) == Gt(b, a)

\* ToPropertyKey
Key(v) == ToStr(v)

Abs(i) == IF i < 0 THEN 0 - i ELSE i

\* the percentage cut to its first decimal instead of rounded
NumPctTruncated(x, y) ==
  IF IsNaN(x) \/ IsNaN(y) THEN Str("NaN")
  ELSE LET tenths == (Abs(x.n) * 1000) \div Abs(y.n)
       IN Str((IF (x.n < 0) # (y.n < 0) /\ x.n # 0 THEN "-" ELSE "")
              \o ToString(tenths \div 10) \o "." \o ToString(tenths % 10))

\* (x / y * 100).toFixed(1) for numbers, y > 0: the quotient rounded to the
\* nearest tenth, a tie going away from zero, with the sign of the quotient.
\* toFixed rounds the double that x / y * 100 evaluates to; for the amounts
\* of the specifications below that double is on the tie or beyond it
\* whenever the exact quotient is a tie.
NumPct(x, y) ==
  IF IsNaN(x) \/ IsNaN(y) THEN Str("NaN")
  ELSE LET tenths == (2 * Abs(x.n) * 1000 + Abs(y.n)) \div (2 * Abs(y.n))
       IN Str((IF (x.n < 0) # (y.n < 0) /\ x.n # 0 THEN "-" ELSE "")
              \o ToString(tenths \div 10) \o "." \o ToString(tenths % 10))

\* ((a / b) * 100).toFixed(1)
PctFixed1(a, b) == NumPct(ToNumber(a), ToNumber(b))

\* the rate without its guard: 0 / 0 is NaN, and NaN.toFixed(1) is 'NaN'
RateUnguarded(x, base) ==
  IF ToNumber(base) = Zero THEN Str("NaN") ELSE PctFixed1(x, base)

\* revenue > 0 ? ((x / revenue) * 100).toFixed(1) : '0.0'
Rate(x, base) == IF Gt(base, Zero) THEN PctFixed1(x, base) ELSE Str("0.0")

(***************************************************************************)
(* Array.prototype.reduce((s, r) => s + f(r), 0) over the values xs.       *)
(***************************************************************************)
ReduceSum(xs) ==
  LET F[i \in 0..Len(xs)] == IF i = 0 THEN Zero ELSE Plus(F[i - 1], xs[i])
  IN F[Len(xs)]

(***************************************************************************)
(* Objects used as maps: the own properties in insertion order, each       *)
(* [k |-> key, v |-> value].  A lookup that finds no own property goes on  *)
(* to Object.prototype.                                                    *)
(***************************************************************************)
ObjectPrototypeKeys ==
  {"constructor", "__proto__", "hasOwnProperty", "isPrototypeOf",
   "propertyIsEnumerable", "toLocaleString", "toString", "valueOf"}

Inherited(k) ==
  IF k = "__proto__" THEN Builtin("[object Object]")
  ELSE IF k = "constructor" THEN Builtin("function Object() { [native code] }")
  ELSE Builtin("function " \o k \o "() { [native code] }")

HasOwn(o, k) == \E i \in 1..Len(o) : o[i].k = k
OwnIndex(o, k) == CHOOSE i \in 1..Len(o) : o[i].k = k

\* !o[k] for a map whose own values are objects
Absent(o, k) == ~HasOwn(o, k) /\ k \notin ObjectPrototypeKeys

\* o[k] for a map whose own values are primitives
Get(o, k) ==
  IF HasOwn(o, k) THEN o[OwnIndex(o, k)].v
  ELSE IF k \in ObjectPrototypeKeys THEN Inherited(k)
  ELSE Undefined

\* o[k] = v with v a primitive: the __proto__ setter ignores primitives
Put(o, k, v) ==
  IF HasOwn(o, k) THEN [o EXCEPT ![OwnIndex(o, k)].v = v]
  ELSE IF k = "__proto__" THEN o
  ELSE Append(o, [k |-> k, v |-> v])

\* an array index: the canonical decimal form of an integer 0 .. 2^32 - 2
\* (keys of ten digits and more do not occur in the model)
IsArrayIndex(k) ==
  /\ Len(k) <= 9
  /\ DigitsValue(k) >= 0
  /\ ToString(DigitsValue(k)) = k

(***************************************************************************)
(* Dates.  An instant is a number of hours since Calendar[1] 00:00 UTC.    *)
(***************************************************************************)
Calendar == <<"2024-02-28", "2024-02-29", "2024-03-01", "2024-03-02">>
HoursPerDay == 24

DayIndex(d) ==
  IF \E i \in 1..Len(Calendar) : Calendar[i] = d
  THEN CHOOSE i \in 1..Len(Calendar) : Calendar[i] = d
  ELSE 0

\* new Date(v).getTime(): 'YYYY-MM-DD' is midnight UTC of that day,
\* 'YYYY-MM-DDTHH:00:00.000Z' is that hour, a number is itself, and
\* anything else is an Invalid Date (NaN)
DateParse(v) ==
  IF v.t = "number" THEN v
  ELSE IF v.t # "string" THEN NaN
  ELSE IF Len(v.s) = 10 /\ DayIndex(v.s) > 0
       THEN Num((DayIndex(v.s) - 1) * HoursPerDay)
  ELSE IF /\ Len(v.s) = 24
          /\ DayIndex(SubSeq(v.s, 1, 10)) > 0
          /\ SubSeq(v.s, 11, 11) = "T"
          /\ SubSeq(v.s, 14, 24) = ":00:00.000Z"
          /\ DigitsValue(SubSeq(v.s, 12, 13)) \in 0..(HoursPerDay - 1)
       THEN Num((DayIndex(SubSeq(v.s, 1, 10)) - 1) * HoursPerDay
                + DigitsValue(SubSeq(v.s, 12, 13)))
  ELSE NaN

\* String.prototype.slice(0, 10)
Slice10(x) == SubSeq(x, 1, IF Len(x) < 10 THEN Len(x) ELSE 10)

\* collation order of the characters of a timestamp
Collation == <<"-", ":", ".", "0", "1", "2", "3", "4", "5", "6", "7", "8", "9",
               "T", "Z">>
CharRank(c) ==
  IF \E i \in 1..Len(Collation) : Collation[i] = c
  THEN CHOOSE i \in 1..Len(Collation) : Collation[i] = c
  ELSE 0

\* a.localeCompare(b) < 0
LocaleBefore(a, b) ==
  \E i \in 1..Len(b) :
    /\ \A j \in 1..(i - 1) : j <= Len(a) /\ SubSeq(a, j, j) = SubSeq(b, j, j)
    /\ \/ i = Len(a) + 1
       \/ i <= Len(a) /\ CharRank(SubSeq(a, i, i)) < CharRank(SubSeq(b, i, i))

\* the comparators handed to Array.prototype.sort, by the line that sorts:
\* before a comparator's result is < 0 its first argument goes first
\*   "index"    ascending array index (the key order of Object.entries)
\*   "revenue"  (a, b) => b[1].revenue - a[1].revenue
\*   "amount"   (a, b) => b[1] - a[1]
\*   "locale"   (a, b) => a[0].localeCompare(b[0])
Before(cmp, a, b) ==
  CASE cmp = "index" -> DigitsValue(a.k) < DigitsValue(b.k)
    [] cmp = "revenue" -> Lt(Minus(b.v.revenue, a.v.revenue), Zero)
    [] cmp = "amount" -> Lt(Minus(b.v, a.v), Zero)
    [] cmp = "rev" -> Lt(Minus(b.v.rev, a.v.rev), Zero)
    [] cmp = "locale" -> LocaleBefore(a.k, b.k)

\* stable insertion of e into the sorted xs: e goes in front of the first
\* element it must precede
InsertSorted(xs, e, cmp) ==
  LET hits == {i \in 1..Len(xs) : Before(cmp, e, xs[i])}
      p == IF hits = {} THEN Len(xs) + 1
           ELSE CHOOSE i \in hits : \A j \in hits : i <= j
  IN SubSeq(xs, 1, p - 1) \o <<e>> \o SubSeq(xs, p, Len(xs))

\* Array.prototype.sort, which is stable
SortBy(xs, cmp) ==
  LET F[i \in 0..Len(xs)] ==
        IF i = 0 THEN <<>> ELSE InsertSorted(F[i - 1], xs[i], cmp)
  IN F[Len(xs)]

\* Object.entries: array-index keys in ascending numeric order first, then
\* the other keys in insertion order
ObjectEntries(o) ==
  SortBy(SelectSeq(o, LAMBDA e : IsArrayIndex(e.k)), "index")
  \o SelectSeq(o, LAMBDA e : ~IsArrayIndex(e.k))

(***************************************************************************)
(* Object.prototype is shared by every object of the program.  A group     *)
(* keyed '__proto__' is Object.prototype itself (lines 78, 120, 136), so   *)
(* the `+=` of a grouping loop adds properties to it; from then on a       *)
(* record without a field of that name reads the inherited value.  p is    *)
(* the list of the properties added so far.  (A key of a breakdown that    *)
(* names an added property does not occur in the model.)                   *)
(***************************************************************************)
\* r.f: the record's own field, else the one inherited
ReadRecord(r, p) ==
  [f \in DOMAIN r |->
     IF r[f] = Undefined /\ HasOwn(p, f) THEN p[OwnIndex(p, f)].v ELSE r[f]]

\* the array of the records as read
AsRead(rs, p) ==
  SubSeq([i \in 1..Len(rs) |-> ReadRecord(rs[i], p)], 1, Len(rs))

\* Object.prototype[k] += x
Taint(p, k, x) ==
  IF HasOwn(p, k) THEN [p EXCEPT ![OwnIndex(p, k)].v = Plus(@, x)]
  ELSE Append(p, [k |-> k, v |-> Plus(Undefined, x)])

(***************************************************************************)
(* computePL, part_000 lines 45-181.                                       *)
(***************************************************************************)
\* lines 49-56: the sums
revenue(ss) == ReduceSum([i \in 1..Len(ss) |-> Or(ss[i].total, Zero)])
collected(ss) == ReduceSum([i \in 1..Len(ss) |-> Or(ss[i].paid, Zero)])
\* the cost of a sale taken for its unit cost
lineCostNoQty(r) == Or(r.costPrice, Zero)
lineCost(r) == Times(Or(r.qty, Zero), Or(r.costPrice, Zero))
cogs(ss) == ReduceSum([i \in 1..Len(ss) |-> lineCost(ss[i])])
grossP(ss) == Minus(revenue(ss), cogs(ss))
totalExp(es) == ReduceSum([i \in 1..Len(es) |-> Or(es[i].amount, Zero)])
netP(ss, es) == Minus(grossP(ss), totalExp(es))
refunds(rs) == ReduceSum([i \in 1..Len(rs) |-> Or(rs[i].refund, Zero)])
\* the balance derived as Math.max(0, total - paid) instead of read
recomputedBalance(r) ==
  Num(IF Amount(r.total) > Amount(r.paid)
      THEN Amount(r.total) - Amount(r.paid) ELSE 0)
storedBalance(r) == Or(r.balance, Zero)
balances(ss) == [i \in 1..Len(ss) |-> storedBalance(ss[i])]
outstanding(ss) == ReduceSum(balances(ss))

\* the predicate without its first line: a PAID sale can be overdue
isOverdueWhateverStatus(s, now) ==
  IF ~Truthy(s.dueDate) THEN FALSE
  ELSE Lt(DateParse(s.dueDate), Num(now))

\* the predicate with <= for <: due now is overdue
isOverdueInclusive(s, now) ==
  IF s.status = Str("PAID") THEN FALSE
  ELSE IF ~Truthy(s.dueDate) THEN FALSE
  ELSE ~Gt(DateParse(s.dueDate), Num(now)) /\ ~IsNaN(DateParse(s.dueDate))

\* lines 64-68
isOverdue(s, now) ==
  IF s.status = Str("PAID") THEN FALSE
  ELSE IF ~Truthy(s.dueDate) THEN FALSE
  ELSE Lt(DateParse(s.dueDate), Num(now))

\* lines 69-70
overdueDebt(ss, now) ==
  ReduceSum(balances(SelectSeq(ss, LAMBDA s :
    isOverdue(s, now) /\ Gt(storedBalance(s), Zero))))

\* the sum without the status test of line 71
upcomingDebtAnyStatus(ss, now) ==
  ReduceSum(balances(SelectSeq(ss, LAMBDA s :
    ~isOverdue(s, now) /\ Gt(storedBalance(s), Zero))))

\* lines 71-72
upcomingDebt(ss, now) ==
  ReduceSum(balances(SelectSeq(ss, LAMBDA s :
    ~isOverdue(s, now) /\ s.status # Str("PAID") /\ Gt(storedBalance(s), Zero))))

\* line 77
categoryOf(s) == Key(Or(s.category, Str("Uncategorised")))

\* lines 78-85, the body of the loop: a sale whose category names a member
\* of Object.prototype finds that member instead of a group, and its
\* figures are added to the member, not to the breakdown
categoryStep(o, s) ==
  LET c == categoryOf(s)
      o1 == IF Absent(o, c)
            THEN Append(o, [k |-> c,
                            v |-> [revenue |-> Zero, cogs |-> Zero,
                                   profit |-> Zero, qty |-> Zero,
                                   count |-> Zero]])
            ELSE o
      rev == Or(s.total, Zero)
      cost == lineCost(s)
  IN IF HasOwn(o1, c)
     THEN [o1 EXCEPT ![OwnIndex(o1, c)].v =
             [revenue |-> Plus(@.revenue, rev),
              cogs |-> Plus(@.cogs, cost),
              profit |-> Plus(@.profit, Minus(rev, cost)),
              qty |-> Plus(@.qty, Or(s.qty, Zero)),
              count |-> Plus(@.count, Num(1))]]
     ELSE o1

\* lines 81-85 when the group is Object.prototype
categoryTaint(p, s) ==
  IF categoryOf(s) # "__proto__" THEN p
  ELSE Taint(Taint(Taint(Taint(Taint(p,
         "revenue", Or(s.total, Zero)),
         "cogs", lineCost(s)),
         "profit", Minus(Or(s.total, Zero), lineCost(s))),
         "qty", Or(s.qty, Zero)),
         "count", Num(1))

\* lines 75-86
categoryBreakdown(ss) ==
  LET F[i \in 0..Len(ss)] ==
        IF i = 0 THEN <<>> ELSE categoryStep(F[i - 1], ss[i])
  IN F[Len(ss)]

\* line 89, one entry
categoryEntry(e) ==
  [name |-> e.k, revenue |-> e.v.revenue, cogs |-> e.v.cogs,
   profit |-> e.v.profit, qty |-> e.v.qty, count |-> e.v.count,
   margin |-> Rate(e.v.profit, e.v.revenue)]

\* lines 87-89
categoryEntries(sorted) == [i \in 1..Len(sorted) |-> categoryEntry(sorted[i])]
categorySorted(ss) ==
  categoryEntries(SortBy(ObjectEntries(categoryBreakdown(ss)), "revenue"))

\* line 94
methodOf(s) == Key(Or(s.method, Str("Cash")))

\* line 95
paymentStep(o, s) ==
  Put(o, methodOf(s), Plus(Or(Get(o, methodOf(s)), Zero), Or(s.paid, Zero)))

\* lines 92-96
paymentMethods(ss) ==
  LET F[i \in 0..Len(ss)] ==
        IF i = 0 THEN <<>> ELSE paymentStep(F[i - 1], ss[i])
  IN F[Len(ss)]

\* lines 97-102
paymentEntries(sorted, base) ==
  [i \in 1..Len(sorted) |->
     [method |-> sorted[i].k, amount |-> sorted[i].v,
      pct |-> Rate(sorted[i].v, base)]]
paymentMethodsSorted(ss) ==
  paymentEntries(SortBy(ObjectEntries(paymentMethods(ss)), "amount"),
                 collected(ss))

\* line 107
expenseStep(o, e) ==
  Put(o, Key(e.category),
      Plus(Or(Get(o, Key(e.category)), Zero), Or(e.amount, Zero)))

\* lines 105-108
expenseByCategory(es) ==
  LET F[i \in 0..Len(es)] ==
        IF i = 0 THEN <<>> ELSE expenseStep(F[i - 1], es[i])
  IN F[Len(es)]

\* lines 109-114
expenseEntries(sorted, base) ==
  [i \in 1..Len(sorted) |->
     [category |-> sorted[i].k, amount |-> sorted[i].v,
      pct |-> Rate(sorted[i].v, base)]]
expenseSorted(es) ==
  expenseEntries(SortBy(ObjectEntries(expenseByCategory(es)), "amount"),
                 totalExp(es))

\* line 119
customerOf(s) == Key(Or(s.customer, Str("Walk-in")))

\* lines 119-124, the body of the loop
customerStep(o, s) ==
  LET c == customerOf(s)
      o1 == IF Absent(o, c)
            THEN Append(o, [k |-> c,
                            v |-> [revenue |-> Zero, paid |-> Zero,
                                   balance |-> Zero, count |-> Zero]])
            ELSE o
  IN IF HasOwn(o1, c)
     THEN [o1 EXCEPT ![OwnIndex(o1, c)].v =
             [revenue |-> Plus(@.revenue, Or(s.total, Zero)),
              paid |-> Plus(@.paid, Or(s.paid, Zero)),
              balance |-> Plus(@.balance, Or(s.balance, Zero)),
              count |-> Plus(@.count, Num(1))]]
     ELSE o1

\* lines 121-124 when the group is Object.prototype
customerTaint(p, s) ==
  IF customerOf(s) # "__proto__" THEN p
  ELSE Taint(Taint(Taint(Taint(p,
         "revenue", Or(s.total, Zero)),
         "paid", Or(s.paid, Zero)),
         "balance", Or(s.balance, Zero)),
         "count", Num(1))

\* lines 117-125
customerRevenue(ss) ==
  LET F[i \in 0..Len(ss)] ==
        IF i = 0 THEN <<>> ELSE customerStep(F[i - 1], ss[i])
  IN F[Len(ss)]

TopN == 10

\* Array.prototype.slice(0, n)
SliceTo(xs, n) == SubSeq(xs, 1, IF Len(xs) < n THEN Len(xs) ELSE n)

\* lines 126-129
customerEntries(top) ==
  [i \in 1..Len(top) |->
     [name |-> top[i].k, revenue |-> top[i].v.revenue,
      paid |-> top[i].v.paid, balance |-> top[i].v.balance,
      count |-> top[i].v.count]]
topCustomers(ss) ==
  customerEntries(
    SliceTo(SortBy(ObjectEntries(customerRevenue(ss)), "revenue"), TopN))

\* the day key without the slice: the whole timestamp
dayOfUnsliced(s) == Or(s.date, Str("")).s

\* line 134: (s.date || '').slice(0, 10); only a string has slice
dayOf(s) == Slice10(Or(s.date, Str("")).s)
sliceThrows(s) == Or(s.date, Str("")).t # "string"

\* lines 134-139, the body of the loop
trendStep(o, s) ==
  LET day == dayOf(s)
      o1 == IF Absent(o, day)
            THEN Append(o, [k |-> day,
                            v |-> [revenue |-> Zero, profit |-> Zero]])
            ELSE o
  IN IF day = "" THEN o
     ELSE IF HasOwn(o1, day)
     THEN [o1 EXCEPT ![OwnIndex(o1, day)].v =
             [revenue |-> Plus(@.revenue, Or(s.total, Zero)),
              profit |-> Plus(@.profit,
                              Minus(Or(s.total, Zero), lineCost(s)))]]
     ELSE o1

\* lines 137-138 when the group is Object.prototype
trendTaint(p, s) ==
  IF dayOf(s) # "__proto__" THEN p
  ELSE Taint(Taint(p,
         "revenue", Or(s.total, Zero)),
         "profit", Minus(Or(s.total, Zero), lineCost(s)))

\* lines 132-140
dailyTrend(ss) ==
  LET F[i \in 0..Len(ss)] ==
        IF i = 0 THEN <<>> ELSE trendStep(F[i - 1], ss[i])
  IN F[Len(ss)]

\* lines 141-143
trendEntries(sorted) ==
  [i \in 1..Len(sorted) |->
     [date |-> sorted[i].k, revenue |-> sorted[i].v.revenue,
      profit |-> sorted[i].v.profit]]
trendSorted(ss) == trendEntries(SortBy(ObjectEntries(dailyTrend(ss)), "locale"))

\* line 146
statusCountsInit ==
  <<[k |-> "PAID", v |-> Zero], [k |-> "PARTIAL", v |-> Zero],
    [k |-> "UNPAID", v |-> Zero], [k |-> "OVERDUE", v |-> Zero]>>

\* line 147
statusStep(o, s) ==
  Put(o, Key(s.status), Plus(Or(Get(o, Key(s.status)), Zero), Num(1)))

\* lines 146-147
statusCounts(ss) ==
  LET F[i \in 0..Len(ss)] ==
        IF i = 0 THEN statusCountsInit ELSE statusStep(F[i - 1], ss[i])
  IN F[Len(ss)]

\* line 167: the size of a Set of the customer fields as stored
uniqueCustomers(ss) == Cardinality({ss[i].customer : i \in 1..Len(ss)})

\* line 168
unitsSold(ss) == ReduceSum([i \in 1..Len(ss) |-> Or(ss[i].qty, Zero)])

\* Date.prototype.toISOString
HourText(h) == IF h < 10 THEN "0" \o ToString(h) ELSE ToString(h)
toISOString(t) ==
  Calendar[(t \div HoursPerDay) + 1] \o "T" \o HourText(t % HoursPerDay)
  \o ":00:00.000Z"

\* one grouping loop over the sales: each sale is read with Object.prototype
\* as the sales before it have left it
LoopTaint(loop, p, s) ==
  CASE loop = "category" -> categoryTaint(p, s)
    [] loop = "customer" -> customerTaint(p, s)
    [] loop = "trend" -> trendTaint(p, s)

LoopAfter(loop, sofar, s) ==
  [reads |-> Append(sofar.reads, s), p |-> LoopTaint(loop, sofar.p, s)]

LoopReads(ss, p0, loop) ==
  LET After[i \in 0..Len(ss)] ==
        IF i = 0 THEN [reads |-> <<>>, p |-> p0]
        ELSE LoopAfter(loop, After[i - 1],
                       ReadRecord(ss[i], After[i - 1].p))
  IN After[Len(ss)]

\* the sales the loop of line 133 gets through: all of them, or those
\* before the first one on which line 134 throws
BeforeThrow(ss) ==
  LET bad == {i \in 1..Len(ss) : sliceThrows(ss[i])}
  IN IF bad = {} THEN ss
     ELSE SubSeq(ss, 1, (CHOOSE i \in bad : \A h \in bad : i <= h) - 1)

\* the arrays as each part of computePL reads them, and Object.prototype
\* as the call leaves it
ViewsWith(ss, es, rs, p0, cat, cus, trd) ==
  [sums |-> AsRead(ss, p0),
   outlays |-> AsRead(es, p0),
   refunded |-> AsRead(rs, p0),
   categories |-> cat.reads,
   payments |-> AsRead(ss, cat.p),
   expenses |-> AsRead(es, cat.p),
   customers |-> cus.reads,
   days |-> AsRead(ss, cus.p),
   counts |-> AsRead(ss, trd.p),
   proto |-> trd.p]

ViewsAfter(ss, es, rs, p0, cat, cus) ==
  ViewsWith(ss, es, rs, p0, cat, cus,
            LoopReads(BeforeThrow(AsRead(ss, cus.p)), cus.p, "trend"))

ViewsFrom(ss, es, rs, p0, cat) ==
  ViewsAfter(ss, es, rs, p0, cat, LoopReads(ss, cat.p, "customer"))

Views(ss, es, rs, p0) ==
  ViewsFrom(ss, es, rs, p0, LoopReads(ss, p0, "category"))

\* lines 149-180: the record returned
plRecord(v, now) ==
  [revenue |-> revenue(v.sums),
   collected |-> collected(v.sums),
   outstanding |-> outstanding(v.sums),
   cogs |-> cogs(v.sums),
   grossProfit |-> grossP(v.sums),
   grossMargin |-> Rate(grossP(v.sums), revenue(v.sums)),
   totalExpenses |-> totalExp(v.outlays),
   netProfit |-> netP(v.sums, v.outlays),
   netMargin |-> Rate(netP(v.sums, v.outlays), revenue(v.sums)),
   collectionRate |-> Rate(collected(v.sums), revenue(v.sums)),
   refunds |-> refunds(v.refunded),
   overdueDebt |-> overdueDebt(v.sums, now),
   upcomingDebt |-> upcomingDebt(v.sums, now),
   salesCount |-> Len(v.sums),
   uniqueCustomers |-> uniqueCustomers(v.counts),
   unitsSold |-> unitsSold(v.counts),
   statusCounts |-> statusCounts(v.counts),
   categoryBreakdown |-> categorySorted(v.categories),
   paymentMethods |-> paymentMethodsSorted(v.payments),
   expenseBreakdown |-> expenseSorted(v.expenses),
   topCustomers |-> topCustomers(v.customers),
   dailyTrend |-> trendSorted(v.days),
   computedAt |-> toISOString(now)]

NoValue == [none |-> TRUE]

\* lines 45-181, on the arrays as read: the call either returns the record
\* or, when line 134 calls slice on a value that has none, ends in a
\* TypeError; either way Object.prototype stays as the loops left it
Outcome(v, now) ==
  IF \E i \in 1..Len(v.days) : sliceThrows(v.days[i])
  THEN [st |-> "threw", now |-> now, val |-> NoValue, proto |-> v.proto]
  ELSE [st |-> "returned", now |-> now, val |-> plRecord(v, now),
        proto |-> v.proto]

\* lines 45-181: settings is a parameter that no line reads; p is
\* Object.prototype as the call finds it
computePL(ss, es, rs, st, now, p) == Outcome(Views(ss, es, rs, p), now)

\* what the caller gets from a call
Completion(done) == [st |-> done.st, now |-> done.now, val |-> done.val]

(***************************************************************************)
(* computeDashboardKPIs, part_000 lines 186-226.                           *)
(***************************************************************************)
\* a <= b on numbers: false when either side is NaN (the stock levels of the
\* model are numbers or absent; two strings would be compared as text)
NumLe(x, y) == ~IsNaN(x) /\ ~IsNaN(y) /\ x.n <= y.n
Le(a, b) == NumLe(ToNumber(a), ToNumber(b))

\* line 187
today(now) == Slice10(toISOString(now))

\* line 188
todaySales(ss, now) == SelectSeq(ss, LAMBDA s : dayOf(s) = today(now))

\* line 189
todayRevenue(ts) == ReduceSum([i \in 1..Len(ts) |-> Or(ts[i].total, Zero)])

\* the profit of a sale taken for its total
saleProfitNoCost(r) == Or(r.total, Zero)

\* line 190, one sale
saleProfit(r) ==
  Minus(Or(r.total, Zero), Times(Or(r.qty, Zero), Or(r.costPrice, Zero)))

\* line 190
todayProfit(ts) == ReduceSum([i \in 1..Len(ts) |-> saleProfit(ts[i])])

\* lines 192-194
totalRevenue(ss) == ReduceSum([i \in 1..Len(ss) |-> Or(ss[i].total, Zero)])
totalCollected(ss) == ReduceSum([i \in 1..Len(ss) |-> Or(ss[i].paid, Zero)])
totalBalance(ss) == ReduceSum([i \in 1..Len(ss) |-> Or(ss[i].balance, Zero)])

\* the filter without its balance test
countsOverdueAnyBalance(s, now) ==
  IF s.status = Str("PAID") THEN FALSE
  ELSE IF ~Truthy(s.dueDate) THEN FALSE
  ELSE Lt(DateParse(s.dueDate), Num(now))

\* lines 197-201, the filter
countsOverdue(s, now) ==
  IF s.status = Str("PAID") THEN FALSE
  ELSE IF ~Truthy(s.dueDate) THEN FALSE
  ELSE Lt(DateParse(s.dueDate), Num(now)) /\ Gt(Or(s.balance, Zero), Zero)

\* lines 196-201
overdueCount(ss, now) == Len(SelectSeq(ss, LAMBDA s : countsOverdue(s, now)))

\* line 203, the filter
lowStock(p) == Le(Or(p.stock, Zero), Or(p.reorderLevel, Num(5)))

\* line 203
lowStockCount(inv) == Len(SelectSeq(inv, lowStock))

\* the filter with <= for ===
outOfStockOrBelow(p) == Le(Or(p.stock, Zero), Zero)

\* line 204, the filter
outOfStock(p) == Or(p.stock, Zero) = Zero

\* line 204
outOfStockCount(inv) == Len(SelectSeq(inv, outOfStock))

\* the dashboard's expenses with absent amounts counted as 1
totalExpensesOff(es) ==
  ReduceSum([i \in 1..Len(es) |-> Or(es[i].amount, Num(1))])

\* lines 206-209
totalExpenses(es) == ReduceSum([i \in 1..Len(es) |-> Or(es[i].amount, Zero)])
dashCogs(ss) ==
  ReduceSum([i \in 1..Len(ss) |->
    Times(Or(ss[i].qty, Zero), Or(ss[i].costPrice, Zero))])
grossProfit(ss) == Minus(totalRevenue(ss), dashCogs(ss))
netProfit(ss, es) == Minus(grossProfit(ss), totalExpenses(es))

\* lines 211-225: the record returned
kpiRecord(ss, es, inv, now) ==
  [todayRevenue |-> todayRevenue(todaySales(ss, now)),
   todayProfit |-> todayProfit(todaySales(ss, now)),
   totalRevenue |-> totalRevenue(ss),
   totalCollected |-> totalCollected(ss),
   totalBalance |-> totalBalance(ss),
   overdueCount |-> overdueCount(ss, now),
   lowStockCount |-> lowStockCount(inv),
   outOfStockCount |-> outOfStockCount(inv),
   totalExpenses |-> totalExpenses(es),
   grossProfit |-> grossProfit(ss),
   netProfit |-> netProfit(ss, es),
   grossMargin |-> Rate(grossProfit(ss), totalRevenue(ss)),
   netMargin |-> Rate(netProfit(ss, es), totalRevenue(ss))]

\* lines 186-226: the call either returns the record or, when line 188 calls
\* slice on a value that has none, ends in a TypeError
computeDashboardKPIs(ss, es, inv, now) ==
  IF \E i \in 1..Len(ss) : sliceThrows(ss[i])
  THEN [st |-> "threw", now |-> now, val |-> NoValue]
  ELSE [st |-> "returned", now |-> now, val |-> kpiRecord(ss, es, inv, now)]

(***************************************************************************)
(* Records as the record store hands them over: a field that is absent is  *)
(* undefined.                                                              *)
(***************************************************************************)
BaseSale ==
  [total |-> Undefined, paid |-> Undefined, balance |-> Undefined,
   qty |-> Undefined, costPrice |-> Undefined, category |-> Undefined,
   method |-> Undefined, customer |-> Undefined, status |-> Undefined,
   dueDate |-> Undefined, date |-> Undefined]

BaseExpense == [amount |-> Undefined, category |-> Undefined]

BaseReturn == [refund |-> Undefined]

BaseItem == [stock |-> Undefined, reorderLevel |-> Undefined]

SeqsUpTo(S, n) == UNION {[1..k -> S] : k \in 0..n}

NoCall == [st |-> "none", now |-> 0, val |-> NoValue]

\* line 45: a parameter the caller leaves out takes its default, []
Params == {"sales", "expenses", "returns"}
Arg(p, a) == IF p \in passed THEN a ELSE <<>>

\* a text added to Object.prototype grows with every call; the model stops
\* calling when one has grown past MaxInherited characters
MaxInherited == 12

InheritedWithinBound ==
  \A i \in 1..Len(proto) : Len(proto[i].v.s) <= MaxInherited

\* a caller applies computePL to its snapshot at the current instant
CallComputePL ==
  /\ InheritedWithinBound
  /\ \E done \in {computePL(Arg("sales", sales), Arg("expenses", expenses),
                             Arg("returns", returns), settings, clock, proto)} :
       /\ call' = Completion(done)
       /\ proto' = done.proto
  /\ UNCHANGED <<sales, expenses, returns, passed, clock, inventory,
                 settings, kpi>>
  /\ UNCHANGED appVars

Next == CallComputePL

\* a caller applies computeDashboardKPIs to its snapshot at the current
\* instant
CallComputeDashboardKPIs ==
  /\ kpi' = computeDashboardKPIs(AsRead(Arg("sales", sales), proto),
                                 AsRead(Arg("expenses", expenses), proto),
                                 AsRead(inventory, proto), clock)
  /\ UNCHANGED <<sales, expenses, returns, passed, clock, call, inventory,
                 settings, proto>>
  /\ UNCHANGED appVars

\* a report and a dashboard on the same snapshot
NextKPI == CallComputePL \/ CallComputeDashboardKPIs

\* a caller that uses computePL alone, without settings, in a runtime whose
\* Object.prototype is as the language creates it
NoSettings == <<>>

\* the rest of the application at rest: an empty database behind a handle
\* that is not yet set, no call in progress, nothing saved or rendered
NoRows ==
  [sales |-> <<>>, inventory |-> <<>>, expenses |-> <<>>, suppliers |-> <<>>,
   customers |-> <<>>, returns_log |-> <<>>]
NoHandle == [set |-> FALSE, opened |-> FALSE, schema |-> 0]
NoTasks == <<>>
NoRet == [op |-> "none", st |-> "none", val |-> Undefined]
NoSave ==
  [pc |-> "idle", native |-> FALSE, name |-> "", saved |-> FALSE,
   shared |-> FALSE, result |-> [st |-> "none", success |-> FALSE],
   files |-> {}]
NoReport == [by |-> "none"]
AppIdle ==
  /\ rows = NoRows
  /\ db = NoHandle
  /\ tasks = NoTasks
  /\ ret = NoRet
  /\ fm = NoSave
  /\ shown = NoReport

Fresh ==
  /\ inventory = <<>>
  /\ settings = NoSettings
  /\ proto = <<>>
  /\ kpi = NoCall
  /\ AppIdle

\* only an array the caller does not have can be left out
PassedOK ==
  /\ passed \in SUBSET Params
  /\ "sales" \notin passed => sales = <<>>
  /\ "expenses" \notin passed => expenses = <<>>
  /\ "returns" \notin passed => returns = <<>>

(***************************************************************************)
(* Spec: snapshots that exercise the sums.  Amounts are present or absent, *)
(* the stored balance may differ from total - paid, and a sale may cost    *)
(* more than it brought in.                                                *)
(***************************************************************************)
MaxSales == 2
MaxExpenses == 1
MaxReturns == 1

Totals == {Undefined, Num(1000)}
PaidBalance ==
  {<<Undefined, Undefined>>, <<Num(1000), Num(0)>>, <<Num(100), Num(500)>>}
QtyCost == {<<Undefined, Undefined>>, <<Num(2), Num(200)>>}

PLSales ==
  {[BaseSale EXCEPT !.total = t, !.paid = pb[1], !.balance = pb[2],
                    !.qty = qc[1], !.costPrice = qc[2]] :
     t \in Totals, pb \in PaidBalance, qc \in QtyCost}
PLExpenses ==
  {BaseExpense,
   [BaseExpense EXCEPT !.amount = Num(150), !.category = Str("Rent")]}
PLReturns == {BaseReturn, [BaseReturn EXCEPT !.refund = Num(20)]}

Init ==
  /\ sales \in SeqsUpTo(PLSales, MaxSales)
  /\ expenses \in SeqsUpTo(PLExpenses, MaxExpenses)
  /\ returns \in SeqsUpTo(PLReturns, MaxReturns)
  /\ PassedOK
  /\ clock = 0
  /\ call = NoCall
  /\ Fresh

Spec == Init /\ [][Next]_vars

(***************************************************************************)
(* What the claims measure the engine against: sums over the integers, a   *)
(* field that is absent or holds no number counting as 0.                  *)
(***************************************************************************)
SeqSum(xs) ==
  LET F[i \in 0..Len(xs)] == IF i = 0 THEN 0 ELSE F[i - 1] + xs[i]
  IN F[Len(xs)]

SumTotal(ss) == SeqSum([i \in 1..Len(ss) |-> Amount(ss[i].total)])
SumPaid(ss) == SeqSum([i \in 1..Len(ss) |-> Amount(ss[i].paid)])
SumBalance(ss) == SeqSum([i \in 1..Len(ss) |-> Amount(ss[i].balance)])
SumCost(ss) ==
  SeqSum([i \in 1..Len(ss) |-> Amount(ss[i].qty) * Amount(ss[i].costPrice)])
SumAmount(es) == SeqSum([i \in 1..Len(es) |-> Amount(es[i].amount)])
SumRefund(rs) == SeqSum([i \in 1..Len(rs) |-> Amount(rs[i].refund)])

Returned == call.st = "returned"
Result == call.val

\* C1: for every input, revenue, cogs and totalExpenses are the sums of
\* total, qty * costPrice and amount (a missing field counting as 0), and
\* grossProfit = revenue - cogs and netProfit = grossProfit - totalExpenses.
C1_ProfitIdentities ==
  Returned =>
    /\ Result.revenue = Num(SumTotal(sales))
    /\ Result.cogs = Num(SumCost(sales))
    /\ Result.totalExpenses = Num(SumAmount(expenses))
    /\ Result.grossProfit = Num(SumTotal(sales) - SumCost(sales))
    /\ Result.netProfit =
         Num(SumTotal(sales) - SumCost(sales) - SumAmount(expenses))

\* two sales, one of them without total, an expense, and a loss
C1_Witness ==
  /\ Returned
  /\ Len(sales) = 2
  /\ \E i \in 1..2 : sales[i].total = Undefined /\ sales[i].qty = Num(2)
  /\ \E i \in 1..2 : sales[i].total = Num(1000)
  /\ expenses = <<[BaseExpense EXCEPT !.amount = Num(150),
                                      !.category = Str("Rent")]>>
  /\ Result.grossProfit = Num(200)
  /\ Result.netProfit = Num(50)

\* the end-to-end scenario of the specification: one sale of 1000 for 2
\* units costing 200 each and one expense of 150
C1_Scenario ==
  /\ Returned
  /\ Len(sales) = 1 /\ Len(expenses) = 1 /\ returns = <<>>
  /\ sales[1].total = Num(1000) /\ sales[1].paid = Num(1000)
  /\ sales[1].qty = Num(2) /\ sales[1].costPrice = Num(200)
  /\ expenses[1].amount = Num(150)
  /\ Result.revenue = Num(1000) /\ Result.cogs = Num(400)
  /\ Result.grossProfit = Num(600) /\ Result.totalExpenses = Num(150)
  /\ Result.netProfit = Num(450)
  /\ Result.grossMargin = Str("60.0") /\ Result.netMargin = Str("45.0")

\* C4: outstanding is the sum of the stored balance fields (missing = 0),
\* whatever total and paid say.
C4_OutstandingIsStored ==
  Returned => Result.outstanding = Num(SumBalance(sales))

Max0(i) == IF i < 0 THEN 0 ELSE i
DerivedBalance(s) == Max0(Amount(s.total) - Amount(s.paid))

\* a sale that stores 500 where total - paid is 900
C4_Witness ==
  /\ Returned
  /\ \E i \in 1..Len(sales) :
       /\ sales[i].total = Num(1000) /\ sales[i].paid = Num(100)
       /\ Amount(sales[i].balance) # DerivedBalance(sales[i])
  /\ Result.outstanding = Num(SumBalance(sales))
  /\ SumBalance(sales) #
       SeqSum([i \in 1..Len(sales) |-> DerivedBalance(sales[i])])

EmptyInput ==
  /\ Arg("sales", sales) = <<>>
  /\ Arg("expenses", expenses) = <<>>
  /\ Arg("returns", returns) = <<>>

\* C7: on empty (or omitted) arrays the call returns, every metric and
\* count is 0, the three rates are '0.0', statusCounts holds its four keys
\* at 0 and the five breakdowns are empty.
C7_EmptyInputZeroed ==
  (EmptyInput /\ call.st # "none") =>
    /\ Returned
    /\ \A f \in {"revenue", "collected", "outstanding", "cogs", "grossProfit",
                 "totalExpenses", "netProfit", "refunds", "overdueDebt",
                 "upcomingDebt", "unitsSold"} : Result[f] = Zero
    /\ Result.salesCount = 0 /\ Result.uniqueCustomers = 0
    /\ \A f \in {"collectionRate", "grossMargin", "netMargin"} :
         Result[f] = Str("0.0")
    /\ Result.statusCounts =
         <<[k |-> "PAID", v |-> Zero], [k |-> "PARTIAL", v |-> Zero],
           [k |-> "UNPAID", v |-> Zero], [k |-> "OVERDUE", v |-> Zero]>>
    /\ \A f \in {"categoryBreakdown", "paymentMethods", "expenseBreakdown",
                 "topCustomers", "dailyTrend"} : Result[f] = <<>>

\* computePL() with no argument at all has returned
C7_Witness == passed = {} /\ Returned /\ Result.netMargin = Str("0.0")

\* computePL([], [], []) has returned
C7_WitnessEmptyArrays == passed = Params /\ EmptyInput /\ Returned

(***************************************************************************)
(* SpecDebt: snapshots that exercise the debt segmentation.  Every status, *)
(* with and without a due date, with a positive, negative or absent stored *)
(* balance, and one sale whose due date is no date; the clock runs from    *)
(* one hour before the due date to after it.                               *)
(***************************************************************************)
DueDay == "2024-02-29"
MaxTicks == 2

DebtSales ==
  {[BaseSale EXCEPT !.status = st, !.dueDate = d, !.balance = b] :
     st \in {Str("PAID"), Str("PARTIAL"), Str("OVERDUE")},
     d \in {Undefined, Str(DueDay)},
     b \in {Undefined, Num(100), Num(-50)}}
  \cup {[BaseSale EXCEPT !.status = Str("UNPAID"), !.dueDate = Str("soon"),
                         !.balance = Num(100)]}

DueInstant == (DayIndex(DueDay) - 1) * HoursPerDay

InitDebt ==
  /\ sales \in SeqsUpTo(DebtSales, MaxSales)
  /\ expenses = <<>>
  /\ returns = <<>>
  /\ passed = Params
  /\ clock = DueInstant - 1
  /\ call = NoCall
  /\ Fresh

\* time passes
Tick ==
  /\ clock < DueInstant - 1 + MaxTicks
  /\ clock' = clock + 1
  /\ UNCHANGED <<sales, expenses, returns, passed, call, inventory, settings,
                 proto, kpi>>
  /\ UNCHANGED appVars

NextDebt == CallComputePL \/ Tick

\* a report and a dashboard on the same snapshot while time passes
NextDash == CallComputePL \/ CallComputeDashboardKPIs \/ Tick

SpecDebt == InitDebt /\ [][NextDebt]_vars

\* the sale has a due date, and it lies strictly before the instant
DueBefore(s, instant) ==
  /\ s.dueDate.t = "string"
  /\ DayIndex(s.dueDate.s) > 0
  /\ (DayIndex(s.dueDate.s) - 1) * HoursPerDay < instant

IsPaid(s) == s.status = Str("PAID")

CountsAsOverdue(s, instant) ==
  ~IsPaid(s) /\ DueBefore(s, instant) /\ Amount(s.balance) > 0

CountsAsUpcoming(s, instant) ==
  ~IsPaid(s) /\ ~DueBefore(s, instant) /\ Amount(s.balance) > 0

Without(ss, i) == SubSeq(ss, 1, i - 1) \o SubSeq(ss, i + 1, Len(ss))

\* C2: overdueDebt is the sum of the stored balances of exactly the sales
\* that are not PAID, are due strictly before the evaluation instant and
\* have a positive balance; a PAID sale past its due date adds to neither
\* overdueDebt nor upcomingDebt, whatever its balance.
C2_OverdueDebt ==
  Returned =>
    /\ Result.overdueDebt =
         Num(SeqSum([i \in 1..Len(sales) |->
               IF CountsAsOverdue(sales[i], call.now)
               THEN Amount(sales[i].balance) ELSE 0]))
    /\ \A i \in 1..Len(sales) :
         (IsPaid(sales[i]) /\ DueBefore(sales[i], call.now)) =>
           /\ overdueDebt(Without(sales, i), call.now) = Result.overdueDebt
           /\ upcomingDebt(Without(sales, i), call.now) = Result.upcomingDebt

\* a PAID sale storing a balance of 100 and a PARTIAL sale owing 100, both
\* past their due date: overdueDebt is 100
C2_Witness ==
  /\ Returned
  /\ call.now > DueInstant
  /\ \E i \in 1..Len(sales) :
       /\ IsPaid(sales[i]) /\ sales[i].dueDate = Str(DueDay)
       /\ sales[i].balance = Num(100)
  /\ \E i \in 1..Len(sales) :
       /\ sales[i].status = Str("PARTIAL") /\ sales[i].dueDate = Str(DueDay)
       /\ sales[i].balance = Num(100)
  /\ Result.overdueDebt = Num(100)
  /\ Result.upcomingDebt = Zero

\* C3: upcomingDebt is the sum of the stored balances of exactly the sales
\* that are not overdue, not PAID and have a positive balance; a sale that
\* is not PAID and has no due date is never in overdueDebt and, with a
\* positive balance, always in upcomingDebt; a sale due exactly at the
\* evaluation instant is upcoming.
C3_UpcomingDebt ==
  Returned =>
    /\ Result.upcomingDebt =
         Num(SeqSum([i \in 1..Len(sales) |->
               IF CountsAsUpcoming(sales[i], call.now)
               THEN Amount(sales[i].balance) ELSE 0]))
    /\ \A i \in 1..Len(sales) :
         LET due == sales[i].dueDate
             owed == Amount(sales[i].balance)
         IN (/\ ~IsPaid(sales[i])
             /\ due = Undefined \/ (due = Str(DueDay) /\ call.now = DueInstant)) =>
              /\ overdueDebt(Without(sales, i), call.now) = Result.overdueDebt
              /\ owed > 0 =>
                   Num(Amount(upcomingDebt(Without(sales, i), call.now)) + owed)
                     = Result.upcomingDebt

\* at the very instant a PARTIAL sale is due, it and a sale without due
\* date, each owing 100, are both upcoming
C3_Witness ==
  /\ Returned
  /\ call.now = DueInstant
  /\ Len(sales) = 2
  /\ \E i \in 1..2 :
       /\ sales[i].status = Str("PARTIAL") /\ sales[i].dueDate = Str(DueDay)
       /\ sales[i].balance = Num(100)
  /\ \E i \in 1..2 :
       /\ sales[i].status = Str("OVERDUE") /\ sales[i].dueDate = Undefined
       /\ sales[i].balance = Num(100)
  /\ Result.upcomingDebt = Num(200)
  /\ Result.overdueDebt = Zero

(***************************************************************************)
(* SpecGroups: snapshots that exercise the three breakdowns.  Categories   *)
(* and payment methods are free text: absent, ordinary names, and the name *)
(* 'constructor'; expense categories likewise, with '__proto__'.           *)
(***************************************************************************)
GroupSales ==
  {[BaseSale EXCEPT !.category = cm[1], !.method = cm[2],
                    !.total = tp[1], !.paid = tp[2]] :
     cm \in {<<Undefined, Undefined>>,
             <<Str("Food"), Str("Card")>>,
             <<Str("Drinks"), Undefined>>,
             <<Str("constructor"), Str("Card")>>,
             <<Str("Food"), Str("constructor")>>},
     tp \in {<<Num(1000), Num(400)>>, <<Num(500), Num(500)>>}}

GroupExpenses ==
  {[BaseExpense EXCEPT !.category = c, !.amount = Num(500)] :
     c \in {Undefined, Str("Rent"), Str("__proto__")}}

InitGroups ==
  /\ sales \in SeqsUpTo(GroupSales, MaxSales)
  /\ expenses \in SeqsUpTo(GroupExpenses, MaxExpenses)
  /\ returns = <<>>
  /\ passed = Params
  /\ clock = 0
  /\ call = NoCall
  /\ Fresh

SpecGroups == InitGroups /\ [][Next]_vars

\* the group a record belongs to: its name, or the fallback when it has none
Label(v, fallback) == IF v.t = "string" /\ v.s # "" THEN v.s ELSE fallback

\* C5: the breakdowns partition the global totals: the group revenues of
\* categoryBreakdown add up to revenue, the group amounts of paymentMethods
\* to collected and those of expenseBreakdown to totalExpenses; every sale
\* is in exactly one category group and one payment-method group (no
\* category -> 'Uncategorised', no method -> 'Cash') and every expense in
\* exactly one expense group.
C5_BreakdownsPartition ==
  Returned =>
    LET cats == Result.categoryBreakdown
        pms == Result.paymentMethods
        exps == Result.expenseBreakdown
    IN /\ \A j \in 1..Len(cats) : IsNum(cats[j].revenue)
       /\ Num(SeqSum([j \in 1..Len(cats) |-> Amount(cats[j].revenue)]))
            = Result.revenue
       /\ \A j \in 1..Len(pms) : IsNum(pms[j].amount)
       /\ Num(SeqSum([j \in 1..Len(pms) |-> Amount(pms[j].amount)]))
            = Result.collected
       /\ \A j \in 1..Len(exps) : IsNum(exps[j].amount)
       /\ Num(SeqSum([j \in 1..Len(exps) |-> Amount(exps[j].amount)]))
            = Result.totalExpenses
       /\ \A i \in 1..Len(sales) :
            /\ Cardinality({j \in 1..Len(cats) :
                 cats[j].name = Label(sales[i].category, "Uncategorised")}) = 1
            /\ Cardinality({j \in 1..Len(pms) :
                 pms[j].method = Label(sales[i].method, "Cash")}) = 1
       /\ \A i \in 1..Len(expenses) :
            Cardinality({j \in 1..Len(exps) :
              exps[j].category = Label(expenses[i].category, "undefined")}) = 1

\* one sale of 1000 in the category 'constructor': revenue is 1000 and the
\* category breakdown is empty
C5_Witness ==
  /\ Returned
  /\ Len(sales) = 1
  /\ sales[1].category = Str("constructor")
  /\ sales[1].total = Num(1000)
  /\ Result.revenue = Num(1000)
  /\ Result.categoryBreakdown = <<>>

(***************************************************************************)
(* SpecMalformed: snapshots with malformed records.  A numeric field is    *)
(* absent, a number, NaN or text; a date is absent, text or a number.      *)
(***************************************************************************)
MalformedSales ==
  {BaseSale,
   [BaseSale EXCEPT !.total = Num(1000), !.paid = Num(400),
                    !.balance = Num(600), !.qty = Num(2),
                    !.costPrice = Num(200), !.date = Str("2024-03-01")],
   [BaseSale EXCEPT !.total = NaN],
   [BaseSale EXCEPT !.total = Str("abc")],
   [BaseSale EXCEPT !.paid = Str("abc")],
   [BaseSale EXCEPT !.balance = Str("abc")],
   [BaseSale EXCEPT !.qty = Str("x"), !.costPrice = Num(200)],
   [BaseSale EXCEPT !.qty = Num(2), !.costPrice = Str("x")],
   [BaseSale EXCEPT !.total = Num(1000), !.date = Num(20240301)]}

MalformedExpenses ==
  {[BaseExpense EXCEPT !.amount = a] : a \in {Num(500), Str("abc")}}

MalformedReturns ==
  {[BaseReturn EXCEPT !.refund = a] : a \in {Num(50), Str("abc")}}

InitMalformed ==
  /\ sales \in SeqsUpTo(MalformedSales, MaxSales)
  /\ expenses \in SeqsUpTo(MalformedExpenses, MaxExpenses)
  /\ returns \in SeqsUpTo(MalformedReturns, MaxReturns)
  /\ passed = Params
  /\ clock = 0
  /\ call = NoCall
  /\ Fresh

SpecMalformed == InitMalformed /\ [][Next]_vars

\* C6: computePL never throws for a malformed record: the call returns a
\* result in which every missing or non-numeric total, paid, balance, qty,
\* costPrice, amount and refund has contributed exactly 0 to its sums.
C6_NeverThrowsZeroCoercion ==
  call.st # "none" =>
    /\ Returned
    /\ Result.revenue = Num(SumTotal(sales))
    /\ Result.collected = Num(SumPaid(sales))
    /\ Result.outstanding = Num(SumBalance(sales))
    /\ Result.cogs = Num(SumCost(sales))
    /\ Result.totalExpenses = Num(SumAmount(expenses))
    /\ Result.refunds = Num(SumRefund(returns))

\* a sale whose date is a number: the call ends in a TypeError
C6_Witness ==
  /\ call.st = "threw"
  /\ Len(sales) = 1
  /\ sales[1].date = Num(20240301)

\* a sale whose total is the text 'abc': revenue is the text '0abc'
C6_WitnessText ==
  /\ Returned
  /\ Len(sales) = 1
  /\ sales[1].total = Str("abc")
  /\ Result.revenue = Str("0abc")

(***************************************************************************)
(* SpecOrder: snapshots that exercise the order of the category breakdown: *)
(* two revenues, so that ties occur, and category names that are words,    *)
(* absent, or strings of digits.                                           *)
(***************************************************************************)
OrderSales ==
  {[BaseSale EXCEPT !.category = c, !.total = t] :
     c \in {Undefined, Str("Food"), Str("10"), Str("9")},
     t \in {Num(500), Num(1000)}}

InitOrder ==
  /\ sales \in SeqsUpTo(OrderSales, MaxSales)
  /\ expenses = <<>>
  /\ returns = <<>>
  /\ passed = Params
  /\ clock = 0
  /\ call = NoCall
  /\ Fresh

SpecOrder == InitOrder /\ [][Next]_vars

\* the position in the sales array at which a category first occurs
FirstSeen(name) ==
  CHOOSE i \in 1..Len(sales) :
    /\ Label(sales[i].category, "Uncategorised") = name
    /\ \A h \in 1..(i - 1) : Label(sales[h].category, "Uncategorised") # name

\* C8: categoryBreakdown is in descending order of group revenue, and two
\* categories of equal revenue are in the order in which they were first
\* encountered in the sales array, whatever the category names, strings of
\* digits included.
C8_StableDescending ==
  Returned =>
    LET cats == Result.categoryBreakdown
    IN \A j, k \in 1..Len(cats) :
         j < k =>
           \/ Amount(cats[j].revenue) > Amount(cats[k].revenue)
           \/ /\ cats[j].revenue = cats[k].revenue
              /\ FirstSeen(cats[j].name) < FirstSeen(cats[k].name)

\* category '10' then category '9', 500 each: the breakdown lists '9' first
C8_Witness ==
  /\ Returned
  /\ Len(sales) = 2
  /\ sales[1].category = Str("10") /\ sales[2].category = Str("9")
  /\ sales[1].total = sales[2].total
  /\ Len(Result.categoryBreakdown) = 2
  /\ Result.categoryBreakdown[1].name = "9"
  /\ Result.categoryBreakdown[2].name = "10"

(***************************************************************************)
(* SpecTop: snapshots that exercise the customer ranking: up to            *)
(* MaxCustomerSales sales shared in turn among 1 .. 12 customers, so that  *)
(* there are fewer, exactly and more than ten groups; the first customer   *)
(* is an ordinary name, no name, or the name 'constructor'.                *)
(***************************************************************************)
MaxCustomerSales == 12

CustomerNames ==
  <<"Amina", "Brian", "Chen", "Dalia", "Emeka", "Fatuma", "Grace", "Hassan",
    "Ivan", "Joy", "Kato", "Lydia">>

FirstCustomers == {Str(CustomerNames[1]), Undefined, Str("constructor")}

RevenueSteps == {1, 5}

\* sale i of n: customers take turns; the amounts differ from sale to sale
TopSales(n, m, step, first) ==
  [i \in 1..n |->
     [BaseSale EXCEPT
        !.customer = IF (i - 1) % m = 0 THEN first
                     ELSE Str(CustomerNames[((i - 1) % m) + 1]),
        !.total = Num(100 * (((i * step) % 13) + 1)),
        !.paid = Num(100),
        !.balance = Num(100 * ((i * step) % 13))]]

InitTop ==
  /\ \E n \in 0..MaxCustomerSales, m \in 1..Len(CustomerNames),
        step \in RevenueSteps, first \in FirstCustomers :
       /\ m <= n \/ (n = 0 /\ m = 1)
       /\ sales = TopSales(n, m, step, first)
  /\ expenses = <<>>
  /\ returns = <<>>
  /\ passed = Params
  /\ clock = 0
  /\ call = NoCall
  /\ Fresh

SpecTop == InitTop /\ [][Next]_vars

CustomerLabel(s) == Label(s.customer, "Walk-in")
CustomerLabels == {CustomerLabel(sales[i]) : i \in 1..Len(sales)}
GroupRevenue(g) ==
  SeqSum([i \in 1..Len(sales) |->
    IF CustomerLabel(sales[i]) = g THEN Amount(sales[i].total) ELSE 0])
GroupPaid(g) ==
  SeqSum([i \in 1..Len(sales) |->
    IF CustomerLabel(sales[i]) = g THEN Amount(sales[i].paid) ELSE 0])
GroupBalance(g) ==
  SeqSum([i \in 1..Len(sales) |->
    IF CustomerLabel(sales[i]) = g THEN Amount(sales[i].balance) ELSE 0])
GroupCount(g) ==
  Cardinality({i \in 1..Len(sales) : CustomerLabel(sales[i]) = g})
Min(a, b) == IF a < b THEN a ELSE b

\* C9: topCustomers has min(10, number of distinct customers) entries, in
\* descending order of revenue; no omitted customer has more revenue than a
\* listed one; each entry's revenue, paid, balance and count are the sums
\* over exactly that customer's sales, a sale without customer name being
\* counted under 'Walk-in'.
C9_TopCustomers ==
  Returned =>
    LET top == Result.topCustomers
        listed == {top[j].name : j \in 1..Len(top)}
    IN /\ Len(top) = Min(10, Cardinality(CustomerLabels))
       /\ \A j, k \in 1..Len(top) :
            j < k => Amount(top[j].revenue) >= Amount(top[k].revenue)
       /\ \A j \in 1..Len(top) :
            /\ top[j].revenue = Num(GroupRevenue(top[j].name))
            /\ top[j].paid = Num(GroupPaid(top[j].name))
            /\ top[j].balance = Num(GroupBalance(top[j].name))
            /\ top[j].count = Num(GroupCount(top[j].name))
       /\ \A g \in CustomerLabels \ listed :
            \A j \in 1..Len(top) : Amount(top[j].revenue) >= GroupRevenue(g)

\* three customers, one of them named 'constructor': two entries
C9_Witness ==
  /\ Returned
  /\ Cardinality(CustomerLabels) = 3
  /\ "constructor" \in CustomerLabels
  /\ Len(Result.topCustomers) = 2

\* twelve customers with ordinary names: ten entries
C9_WitnessTruncated ==
  /\ Returned
  /\ Cardinality(CustomerLabels) = 12
  /\ "constructor" \notin CustomerLabels
  /\ Len(Result.topCustomers) = 10

(***************************************************************************)
(* SpecTrend: snapshots that exercise the daily trend: sales without       *)
(* timestamp, with an empty one, and with timestamps at different hours of *)
(* the same and of different days, in every order.                         *)
(***************************************************************************)
TrendDates ==
  {Undefined, Str(""), Str("2024-02-29T08:00:00.000Z"),
   Str("2024-03-01T08:00:00.000Z"), Str("2024-03-01T23:00:00.000Z")}

TrendAmounts ==
  {<<Num(1000), Num(2), Num(200)>>, <<Num(500), Undefined, Undefined>>}

TrendSales ==
  {[BaseSale EXCEPT !.date = d, !.total = a[1], !.qty = a[2],
                    !.costPrice = a[3]] :
     d \in TrendDates, a \in TrendAmounts}

InitTrend ==
  /\ sales \in SeqsUpTo(TrendSales, MaxSales)
  /\ expenses = <<>>
  /\ returns = <<>>
  /\ passed = Params
  /\ clock = 0
  /\ call = NoCall
  /\ Fresh

SpecTrend == InitTrend /\ [][Next]_vars

Timestamped(s) == s.date.t = "string" /\ Len(s.date.s) >= 10
CalendarDay(s) == SubSeq(s.date.s, 1, 10)
CalendarDays ==
  {CalendarDay(sales[i]) : i \in {h \in 1..Len(sales) : Timestamped(sales[h])}}
OnDay(s, day) == Timestamped(s) /\ CalendarDay(s) = day
DayRevenue(day) ==
  SeqSum([i \in 1..Len(sales) |->
    IF OnDay(sales[i], day) THEN Amount(sales[i].total) ELSE 0])
DayProfit(day) ==
  SeqSum([i \in 1..Len(sales) |->
    IF OnDay(sales[i], day)
    THEN Amount(sales[i].total)
         - Amount(sales[i].qty) * Amount(sales[i].costPrice)
    ELSE 0])

C10_WitnessOrder ==
  /\ Returned
  /\ Len(sales) = 2
  /\ sales[1].date = Str("2024-03-01T08:00:00.000Z")
  /\ sales[2].date = Str("2024-02-29T08:00:00.000Z")
  /\ Len(Result.dailyTrend) = 2
  /\ Result.dailyTrend[1].date = "2024-02-29"

(***************************************************************************)
(* SpecStatus: snapshots that exercise the status counts: the four known   *)
(* statuses, no status, an unknown status, and statuses that name members  *)
(* of Object.prototype.                                                    *)
(***************************************************************************)
StatusSales ==
  {[BaseSale EXCEPT !.status = st] :
     st \in {Undefined, Str("PAID"), Str("PARTIAL"), Str("UNPAID"),
             Str("OVERDUE"), Str("REFUNDED"), Str("constructor"),
             Str("__proto__")}}

InitStatus ==
  /\ sales \in SeqsUpTo(StatusSales, MaxSales)
  /\ expenses = <<>>
  /\ returns = <<>>
  /\ passed = Params
  /\ clock = 0
  /\ call = NoCall
  /\ Fresh

SpecStatus == InitStatus /\ [][Next]_vars

\* the key a sale's stored status names
StatusName(s) == IF s.status.t = "string" THEN s.status.s ELSE "undefined"
WithStatus(name) == {i \in 1..Len(sales) : StatusName(sales[i]) = name}

\* C11: statusCounts always has the keys PAID, PARTIAL, UNPAID and OVERDUE;
\* every key counts the sales whose stored status names it, an unrecognised
\* status having a key of its own; the values of all keys add up to
\* salesCount.
C11_StatusCounts ==
  Returned =>
    LET sc == Result.statusCounts
        keys == {sc[j].k : j \in 1..Len(sc)}
    IN /\ {"PAID", "PARTIAL", "UNPAID", "OVERDUE"} \subseteq keys
       /\ \A i \in 1..Len(sales) : StatusName(sales[i]) \in keys
       /\ \A j \in 1..Len(sc) :
            sc[j].v = Num(Cardinality(WithStatus(sc[j].k)))
       /\ SeqSum([j \in 1..Len(sc) |-> Amount(sc[j].v)]) = Result.salesCount

\* one sale whose status is 'constructor': its key holds text, not 1
C11_Witness ==
  /\ Returned
  /\ Len(sales) = 1
  /\ sales[1].status = Str("constructor")
  /\ \E j \in 1..Len(Result.statusCounts) :
       /\ Result.statusCounts[j].k = "constructor"
       /\ Result.statusCounts[j].v.t = "string"

\* one sale whose status is '__proto__': no key counts it
C11_WitnessDropped ==
  /\ Returned
  /\ Len(sales) = 1
  /\ sales[1].status = Str("__proto__")
  /\ Result.salesCount = 1
  /\ \A j \in 1..Len(Result.statusCounts) : Result.statusCounts[j].v = Zero

(***************************************************************************)
(* SpecCustomers: snapshots that exercise the customer count: sales with   *)
(* ordinary customer names, the name 'Walk-in', an empty name and no name. *)
(***************************************************************************)
CountedCustomers ==
  {Undefined, Str(""), Str("Walk-in"), Str("Amina"), Str("Brian")}

CustomerSales ==
  {[BaseSale EXCEPT !.customer = c, !.total = t] :
     c \in CountedCustomers, t \in {Num(500), Num(1000)}}

InitCustomers ==
  /\ sales \in SeqsUpTo(CustomerSales, MaxSales)
  /\ expenses = <<>>
  /\ returns = <<>>
  /\ passed = Params
  /\ clock = 0
  /\ call = NoCall
  /\ Fresh

SpecCustomers == InitCustomers /\ [][Next]_vars

\* C12: uniqueCustomers is the number of distinct customer names among the
\* sales, a sale without customer name counting under 'Walk-in'; it equals
\* the number of customer groups formed for topCustomers before truncation.
C12_UniqueCustomers ==
  Returned =>
    /\ Result.uniqueCustomers = Cardinality(CustomerLabels)
    /\ Result.uniqueCustomers = Len(customerRevenue(sales))

\* a sale to 'Walk-in' and a sale without customer name: one group, two
\* unique customers
C12_Witness ==
  /\ Returned
  /\ Len(sales) = 2
  /\ sales[1].customer = Str("Walk-in")
  /\ sales[2].customer = Undefined
  /\ Len(Result.topCustomers) = 1
  /\ Result.uniqueCustomers = 2

(***************************************************************************)
(* SpecRates: snapshots that exercise the percentages: revenues of 3 and   *)
(* 800 so that quotients need rounding, a negative total so that revenue   *)
(* can be zero or negative, costs and expenses so that profits can be      *)
(* negative.                                                               *)
(***************************************************************************)
RateSales ==
  {BaseSale} \cup
  {[BaseSale EXCEPT !.total = t, !.paid = p,
                    !.qty = qc[1], !.costPrice = qc[2],
                    !.category = IF p = Num(1) THEN Str("Food") ELSE Undefined,
                    !.method = IF qc[1] = Undefined THEN Undefined
                               ELSE Str("Card")] :
     t \in {Num(800), Num(3), Num(-200)},
     p \in {Undefined, Num(1), Num(2)},
     qc \in {<<Undefined, Undefined>>, <<Num(1), Num(7)>>}}

RateExpenses ==
  {[BaseExpense EXCEPT !.category = Str("Rent"), !.amount = Num(500)],
   [BaseExpense EXCEPT !.category = Str("Fuel"), !.amount = Num(3)]}

InitRates ==
  /\ sales \in SeqsUpTo(RateSales, MaxSales)
  /\ expenses \in SeqsUpTo(RateExpenses, MaxExpenses)
  /\ returns = <<>>
  /\ passed = Params
  /\ clock = 0
  /\ call = NoCall
  /\ Fresh

SpecRates == InitRates /\ [][Next]_vars

\* the number of tenths a text of the form [-]digits.digit stands for
Tenths(txt) ==
  LET body == IF SubSeq(txt, 1, 1) = "-" THEN Tail(txt) ELSE txt
      tenths == 10 * DigitsValue(SubSeq(body, 1, Len(body) - 2))
                + DigitsValue(SubSeq(body, Len(body), Len(body)))
  IN IF SubSeq(txt, 1, 1) = "-" THEN 0 - tenths ELSE tenths

OneDecimal(txt) ==
  LET body == IF SubSeq(txt, 1, 1) = "-" THEN Tail(txt) ELSE txt
  IN /\ Len(body) >= 3
     /\ SubSeq(body, Len(body) - 1, Len(body) - 1) = "."
     /\ DigitsValue(SubSeq(body, 1, Len(body) - 2)) >= 0
     /\ DigitsValue(SubSeq(body, Len(body), Len(body))) >= 0

\* rate is x / base * 100 rounded to one decimal when base > 0, else '0.0'
IsRate(rate, x, base) ==
  /\ rate.t = "string"
  /\ IF base > 0
     THEN /\ OneDecimal(rate.s)
          /\ Abs(2 * Tenths(rate.s) * base - 2000 * x) <= base
     ELSE rate.s = "0.0"

\* C13: collectionRate, grossMargin and netMargin are collected, grossProfit
\* and netProfit over revenue, times 100, rounded to one decimal place when
\* revenue > 0 and '0.0' when revenue is zero or negative; by the same rule
\* a category's margin is its profit over its revenue, a payment method's
\* pct its amount over collected, an expense category's pct its amount over
\* totalExpenses.
C13_Rates ==
  Returned =>
    LET cats == Result.categoryBreakdown
        pms == Result.paymentMethods
        exps == Result.expenseBreakdown
        rev == Amount(Result.revenue)
    IN /\ IsRate(Result.collectionRate, Amount(Result.collected), rev)
       /\ IsRate(Result.grossMargin, Amount(Result.grossProfit), rev)
       /\ IsRate(Result.netMargin, Amount(Result.netProfit), rev)
       /\ \A j \in 1..Len(cats) :
            IsRate(cats[j].margin, Amount(cats[j].profit),
                   Amount(cats[j].revenue))
       /\ \A j \in 1..Len(pms) :
            IsRate(pms[j].pct, Amount(pms[j].amount),
                   Amount(Result.collected))
       /\ \A j \in 1..Len(exps) :
            IsRate(exps[j].pct, Amount(exps[j].amount),
                   Amount(Result.totalExpenses))

\* revenue 3, collected 2, cost 7, expenses 500: the rates are rounded
C13_Witness ==
  /\ Returned
  /\ Result.revenue = Num(3)
  /\ Result.collected = Num(2)
  /\ Result.collectionRate = Str("66.7")
  /\ Result.grossMargin = Str("-133.3")
  /\ Result.totalExpenses = Num(500)
  /\ Result.netMargin = Str("-16800.0")

\* revenue -200 with 2 collected: every rate on revenue is '0.0'
C13_WitnessNegative ==
  /\ Returned
  /\ Result.revenue = Num(-200)
  /\ Result.collected = Num(2)
  /\ Result.collectionRate = Str("0.0")
  /\ Result.grossMargin = Str("0.0")
  /\ Result.netMargin = Str("0.0")

(***************************************************************************)
(* SpecDash: snapshots on which a report and a dashboard are computed:     *)
(* amounts that are absent, positive, negative and text, with costs and    *)
(* expenses.                                                               *)
(***************************************************************************)
DashSales ==
  {BaseSale,
   [BaseSale EXCEPT !.total = Num(1000), !.paid = Num(400),
                    !.balance = Num(600), !.qty = Num(2),
                    !.costPrice = Num(200)],
   [BaseSale EXCEPT !.total = Num(500), !.paid = Num(500)],
   [BaseSale EXCEPT !.total = Num(3), !.paid = Num(1), !.balance = Num(2),
                    !.qty = Num(1), !.costPrice = Num(7)],
   [BaseSale EXCEPT !.total = Num(-200)],
   [BaseSale EXCEPT !.total = Str("abc")],
   [BaseSale EXCEPT !.qty = Str("x"), !.costPrice = Num(200)]}

DashExpenses ==
  {[BaseExpense EXCEPT !.amount = a] : a \in {Undefined, Num(500), Str("abc")}}

InitDash ==
  /\ sales \in SeqsUpTo(DashSales, MaxSales)
  /\ expenses \in SeqsUpTo(DashExpenses, MaxExpenses)
  /\ returns = <<>>
  /\ passed = Params
  /\ clock = 0
  /\ call = NoCall
  /\ Fresh

SpecDash == InitDash /\ [][NextKPI]_vars

Both == call.st = "returned" /\ kpi.st = "returned"
Dashboard == kpi.val

\* C14: the dashboard and the report agree on the all-time figures:
\* totalRevenue = revenue, totalCollected = collected, totalBalance =
\* outstanding, and totalExpenses, grossProfit, netProfit, grossMargin and
\* netMargin are the same in both results.
C14_DashboardAgrees ==
  Both =>
    /\ Dashboard.totalRevenue = Result.revenue
    /\ Dashboard.totalCollected = Result.collected
    /\ Dashboard.totalBalance = Result.outstanding
    /\ Dashboard.totalExpenses = Result.totalExpenses
    /\ Dashboard.grossProfit = Result.grossProfit
    /\ Dashboard.netProfit = Result.netProfit
    /\ Dashboard.grossMargin = Result.grossMargin
    /\ Dashboard.netMargin = Result.netMargin

\* revenue 1003, cost 407, an expense of 500 and one without amount: both
\* results show a net profit of 96 and a net margin of 9.6
C14_Witness ==
  /\ Both
  /\ Len(expenses) = 1
  /\ Result.revenue = Num(1003)
  /\ Dashboard.totalRevenue = Num(1003)
  /\ Dashboard.totalCollected = Num(401)
  /\ Dashboard.totalBalance = Num(602)
  /\ Dashboard.totalExpenses = Num(500)
  /\ Dashboard.netProfit = Num(96)
  /\ Dashboard.netMargin = Str("9.6")

\* an expense without amount: the two results still agree
C14_WitnessNoAmount ==
  /\ Both
  /\ Len(expenses) = 1
  /\ expenses[1].amount = Undefined
  /\ Result.revenue = Num(1000)
  /\ Dashboard.netProfit = Num(600)

(***************************************************************************)
(* SpecDashDebt: snapshots on which the dashboard's overdue count and the  *)
(* report's overdue debt are computed while the clock passes the due date: *)
(* PAID and PARTIAL sales, with and without due date, owing a positive, a  *)
(* negative or no balance, and one sale whose due date is no date.         *)
(***************************************************************************)
DashDebtSales ==
  {[BaseSale EXCEPT !.status = st, !.dueDate = d, !.balance = b] :
     st \in {Str("PAID"), Str("PARTIAL")},
     d \in {Undefined, Str(DueDay)},
     b \in {Undefined, Num(100), Num(-50)}}
  \cup {[BaseSale EXCEPT !.status = Str("UNPAID"), !.dueDate = Str("soon"),
                         !.balance = Num(100)]}

InitDashDebt ==
  /\ sales \in SeqsUpTo(DashDebtSales, MaxSales)
  /\ expenses = <<>>
  /\ returns = <<>>
  /\ passed = Params
  /\ clock = DueInstant - 1
  /\ call = NoCall
  /\ Fresh

SpecDashDebt == InitDashDebt /\ [][NextDash]_vars

OverdueAt(instant) ==
  {i \in 1..Len(sales) : CountsAsOverdue(sales[i], instant)}

\* C15: overdueCount is the number of sales that are not PAID, are due
\* strictly before the evaluation instant and have a positive balance; for
\* the same sales at the same instant these are the sales that make up the
\* report's overdueDebt, so that overdueCount = 0 iff overdueDebt = 0.
C15_OverdueCount ==
  /\ kpi.st = "returned" =>
       Dashboard.overdueCount = Cardinality(OverdueAt(kpi.now))
  /\ (Both /\ call.now = kpi.now) =>
       /\ Result.overdueDebt =
            Num(SeqSum([i \in 1..Len(sales) |->
                  IF i \in OverdueAt(kpi.now)
                  THEN Amount(sales[i].balance) ELSE 0]))
       /\ Dashboard.overdueCount = 0 <=> Result.overdueDebt = Zero

\* after the due date, a PARTIAL sale owing 100 next to one owing -50: the
\* dashboard counts one overdue sale and the report 100 of overdue debt
C15_Witness ==
  /\ Both
  /\ call.now = kpi.now
  /\ kpi.now > DueInstant
  /\ Len(sales) = 2
  /\ \A i \in 1..2 :
       sales[i].status = Str("PARTIAL") /\ sales[i].dueDate = Str(DueDay)
  /\ sales[1].balance = Num(100)
  /\ sales[2].balance = Num(-50)
  /\ Dashboard.overdueCount = 1
  /\ Result.overdueDebt = Num(100)

(***************************************************************************)
(* SpecStock: inventories on which the dashboard is computed: stock levels *)
(* absent, zero, negative and positive; reorder levels absent, zero,       *)
(* positive and negative.                                                  *)
(***************************************************************************)
MaxItems == 2

StockItems ==
  {[BaseItem EXCEPT !.stock = st, !.reorderLevel = rl] :
     st \in {Undefined, Num(0), Num(-2), Num(3), Num(7)},
     rl \in {Undefined, Num(0), Num(10), Num(-1)}}

InitStock ==
  /\ sales = <<>>
  /\ expenses = <<>>
  /\ returns = <<>>
  /\ passed = Params
  /\ clock = 0
  /\ call = NoCall
  /\ inventory \in SeqsUpTo(StockItems, MaxItems)
  /\ settings = NoSettings
  /\ proto = <<>>
  /\ kpi = NoCall
  /\ AppIdle

SpecStock == InitStock /\ [][NextKPI]_vars

\* the level an item is compared against: its own reorder level, 5 when it
\* has none
Threshold(p) == IF p.reorderLevel = Undefined THEN 5 ELSE Amount(p.reorderLevel)

\* C16: lowStockCount is the number of items with stock <= reorderLevel,
\* the threshold 5 being used only for an item without reorderLevel; an
\* explicit reorderLevel, 0 included, is the level compared against.
C16_LowStockCount ==
  kpi.st = "returned" =>
    Dashboard.lowStockCount =
      Cardinality({i \in 1..Len(inventory) :
        Amount(inventory[i].stock) <= Threshold(inventory[i])})

\* one item with 3 in stock and a reorder level of 0: counted as low stock
C16_Witness ==
  /\ kpi.st = "returned"
  /\ Len(inventory) = 1
  /\ inventory[1].stock = Num(3)
  /\ inventory[1].reorderLevel = Num(0)
  /\ Dashboard.lowStockCount = 1

\* C17: outOfStockCount is the number of items whose stock is exactly 0, an
\* item with negative or positive stock not being counted; when no reorder
\* level is negative every out-of-stock item is also low in stock, so that
\* outOfStockCount <= lowStockCount.
C17_OutOfStockCount ==
  kpi.st = "returned" =>
    /\ Dashboard.outOfStockCount =
         Cardinality({i \in 1..Len(inventory) :
           Amount(inventory[i].stock) = 0})
    /\ (\A i \in 1..Len(inventory) : Amount(inventory[i].reorderLevel) >= 0) =>
         /\ \A i \in 1..Len(inventory) :
              outOfStock(inventory[i]) => lowStock(inventory[i])
         /\ Dashboard.outOfStockCount <= Dashboard.lowStockCount

\* an item with no stock and an item with -2 in stock: one is out of stock,
\* both are low in stock
C17_Witness ==
  /\ kpi.st = "returned"
  /\ Len(inventory) = 2
  /\ inventory[1].stock = Num(0)
  /\ inventory[2].stock = Num(-2)
  /\ \A i \in 1..2 : inventory[i].reorderLevel = Num(0)
  /\ Dashboard.outOfStockCount = 1
  /\ Dashboard.lowStockCount = 2

(***************************************************************************)
(* SpecToday: snapshots on which the dashboard is computed while the clock *)
(* passes midnight UTC: sales without timestamp, of the day before and of  *)
(* the day after midnight, with and without cost.                          *)
(***************************************************************************)
TodayDates ==
  {Undefined, Str("2024-02-28T08:00:00.000Z"), Str("2024-02-28T23:00:00.000Z"),
   Str("2024-02-29T08:00:00.000Z"), Str("2024-02-29")}

TodaySales ==
  {[BaseSale EXCEPT !.date = d, !.total = a[1], !.qty = a[2],
                    !.costPrice = a[3]] :
     d \in TodayDates, a \in TrendAmounts}

InitToday ==
  /\ sales \in SeqsUpTo(TodaySales, MaxSales)
  /\ expenses = <<>>
  /\ returns = <<>>
  /\ passed = Params
  /\ clock = DueInstant - 1
  /\ call = NoCall
  /\ Fresh

SpecToday == InitToday /\ [][NextDash]_vars

\* the calendar day, in UTC, of an instant
CalendarDayOf(instant) == Calendar[(instant \div HoursPerDay) + 1]

\* C18: todayRevenue and todayProfit are the sums of total and of
\* total - qty * costPrice over exactly the sales whose timestamp starts
\* with the evaluation day's YYYY-MM-DD; a sale of another day or without
\* date adds nothing, and no sale is in the today figures that totalRevenue
\* leaves out.
C18_TodayFigures ==
  kpi.st = "returned" =>
    /\ Dashboard.todayRevenue = Num(DayRevenue(CalendarDayOf(kpi.now)))
    /\ Dashboard.todayProfit = Num(DayProfit(CalendarDayOf(kpi.now)))
    /\ Dashboard.totalRevenue = Num(SumTotal(sales))

\* just after midnight, a sale of the new day (1000, cost 400) and one of
\* 23:00 the day before: today's revenue is 1000 and today's profit 600
C18_Witness ==
  /\ kpi.st = "returned"
  /\ kpi.now = DueInstant
  /\ Len(sales) = 2
  /\ sales[1].date = Str("2024-02-29T08:00:00.000Z")
  /\ sales[1].qty = Num(2)
  /\ sales[2].date = Str("2024-02-28T23:00:00.000Z")
  /\ Dashboard.todayRevenue = Num(1000)
  /\ Dashboard.todayProfit = Num(600)
  /\ Dashboard.totalRevenue = Num(1000 + Amount(sales[2].total))

(***************************************************************************)
(* Calls that follow one another on one snapshot: the report and the       *)
(* dashboard are computed again and again, at the same or a later          *)
(* instant, and the settings row may be saved in between.                  *)
(***************************************************************************)
MaxFrameSales == 2

FrameSales ==
  {[BaseSale EXCEPT !.customer = Str("__proto__"), !.total = Num(500),
                    !.paid = Str("abc")],
   [BaseSale EXCEPT !.total = Num(1000), !.balance = Num(1000),
                    !.dueDate = Str(DueDay), !.status = Str("UNPAID")],
   [BaseSale EXCEPT !.category = Str("__proto__"), !.total = Num(300),
                    !.qty = Num(2), !.costPrice = Num(100)],
   [BaseSale EXCEPT !.customer = Str("Amina"), !.category = Str("Food"),
                    !.total = Num(400), !.paid = Num(400)]}

SettingsRows ==
  {[currency |-> Str("UGX"), taxRate |-> Num(0), lowStock |-> Num(5)],
   [currency |-> Str("KES"), taxRate |-> Num(18), lowStock |-> Num(0)]}

\* database.js lines 163-171: the settings row is replaced
saveSettings ==
  /\ \E s \in SettingsRows \ {settings} : settings' = s
  /\ UNCHANGED <<sales, expenses, returns, passed, clock, call, inventory,
                 proto, kpi>>
  /\ UNCHANGED appVars

NextFrame ==
  CallComputePL \/ CallComputeDashboardKPIs \/ Tick \/ saveSettings

InitFrame ==
  /\ sales \in SeqsUpTo(FrameSales, MaxFrameSales)
  /\ expenses = <<[BaseExpense EXCEPT !.amount = Num(100)]>>
  /\ returns = <<>>
  /\ passed = Params
  /\ clock = DueInstant - 1
  /\ call = NoCall
  /\ inventory = <<[BaseItem EXCEPT !.stock = Num(3)]>>
  /\ settings \in SettingsRows
  /\ proto = <<>>
  /\ kpi = NoCall
  /\ AppIdle

SpecFrame == InitFrame /\ [][NextFrame]_vars

\* what a call at the instant `now` gives when nothing was called before
Alone(now) ==
  Completion(computePL(Arg("sales", sales), Arg("expenses", expenses),
                       Arg("returns", returns), settings, now, <<>>))

DashboardAlone(now) ==
  computeDashboardKPIs(Arg("sales", sales), Arg("expenses", expenses),
                       inventory, now)

\* C19: computePL and computeDashboardKPIs leave their inputs unchanged and
\* keep no state between calls: a call changes none of the sales, expenses,
\* returns, inventory and settings it was given, leaves nothing behind for
\* a later call to find, and its result is the one the same call gives when
\* no other call was made before it.
C19_NoSharedState ==
  [][/\ (call' # call \/ kpi' # kpi \/ proto' # proto)
          => UNCHANGED <<sales, expenses, returns, inventory, settings>>
     /\ proto' = proto
     /\ call' # call => call' = Alone(clock)
     /\ kpi' # kpi => kpi' = DashboardAlone(clock)]_vars

\* two computePL calls on the snapshot [{customer: '__proto__',
\* paid: 'abc', total: 500}, {total: 1000, ...}] have been made: the second
\* one found the paid left on Object.prototype by the first
C19_Witness ==
  /\ Len(sales) = 2
  /\ sales[1].customer = Str("__proto__")
  /\ sales[2].paid = Undefined
  /\ Returned
  /\ HasOwn(proto, "paid")
  /\ proto[OwnIndex(proto, "paid")].v = Str("undefinedabcabc")
  /\ call.val.collected = Str("0abcundefinedabc")
  /\ Alone(call.now).val.collected = Str("0abc0")

\* well-formed amounts only: the call on [{category: '__proto__',
\* total: 300, qty: 2, costPrice: 100}] has left revenue, cogs, profit, qty
\* and count on Object.prototype
C19_WitnessLeftBehind ==
  /\ Len(sales) = 1
  /\ sales[1].category = Str("__proto__")
  /\ Returned
  /\ Len(proto) = 5
  /\ \A f \in {"revenue", "cogs", "profit", "qty", "count"} :
        HasOwn(proto, f) /\ proto[OwnIndex(proto, f)].v = NaN

\* the dashboard refreshed after a report was computed differs from the
\* dashboard of the same snapshot alone
C19_WitnessInterleaved ==
  /\ kpi.st = "returned"
  /\ Returned
  /\ kpi.val.totalCollected = Str("0abcundefinedabc")
  /\ DashboardAlone(kpi.now).val.totalCollected = Str("0abc0")

\* the fields of a result that may depend on the instant
ClockFields == {"overdueDebt", "upcomingDebt", "computedAt"}

SameButClock(a, b) == \A f \in (DOMAIN a) \ ClockFields : a[f] = b[f]

\* C20: computePL is deterministic given its inputs and the wall clock: of
\* two calls on the same sales, expenses and returns, whatever the
\* settings, the results are identical when the instant is the same, and
\* differ at most in overdueDebt, upcomingDebt and computedAt otherwise.
C20_Deterministic ==
  [][(call.st = "returned" /\ call'.st = "returned")
       => /\ SameButClock(call.val, call'.val)
          /\ call'.now = call.now => call'.val = call.val]_vars

\* the second of two calls at one instant on one snapshot returned another
\* collected than that snapshot gives at that instant
C20_Witness ==
  /\ Len(sales) = 2
  /\ sales[1].customer = Str("__proto__")
  /\ sales[2].paid = Undefined
  /\ Returned
  /\ clock = DueInstant - 1
  /\ call.now = clock
  /\ call.val.collected = Str("0abcundefinedabc")
  /\ call.val # Alone(clock).val

\* with nothing left on Object.prototype, a later instant and another
\* settings row change the overdue and upcoming debt and computedAt only
C20_WitnessClock ==
  /\ Len(sales) = 1
  /\ sales[1].dueDate = Str(DueDay)
  /\ Returned
  /\ proto = <<>>
  /\ call.now = DueInstant - 1
  /\ clock = DueInstant + 1
  /\ call.val.upcomingDebt = Num(1000)
  /\ Alone(clock).val.overdueDebt = Num(1000)
  /\ \A st \in SettingsRows :
        SameButClock(call.val,
                     Completion(computePL(sales, expenses, returns, st, clock,
                                          <<>>)).val)

(***************************************************************************)
(* SpecPartition: sales that are PAID or not, due or without due date,     *)
(* with a balance that is absent, positive or negative, so that balances   *)
(* left out of both debt sums can cancel.                                  *)
(***************************************************************************)
PartitionSales ==
  {[BaseSale EXCEPT !.status = st, !.dueDate = d, !.balance = b] :
     st \in {Str("PAID"), Str("UNPAID")},
     d \in {Undefined, Str(DueDay)},
     b \in {Undefined, Num(100), Num(-100)}}

InitPartition ==
  /\ sales \in SeqsUpTo(PartitionSales, MaxSales)
  /\ expenses = <<>>
  /\ returns = <<>>
  /\ passed = Params
  /\ clock = DueInstant - 1
  /\ call = NoCall
  /\ Fresh

SpecPartition == InitPartition /\ [][NextDebt]_vars

\* the balances that neither debt sum takes: those of PAID sales and the
\* negative ones
LeftOut(s) ==
  IF IsPaid(s) \/ Amount(s.balance) < 0 THEN Amount(s.balance) ELSE 0

NothingLeftOut ==
  /\ \A i \in 1..Len(sales) : IsPaid(sales[i]) => Amount(sales[i].balance) = 0
  /\ \A i \in 1..Len(sales) : Amount(sales[i].balance) >= 0

DebtSplit ==
  /\ \A i \in 1..Len(sales) :
        \/ overdueDebt(Without(sales, i), call.now) = Result.overdueDebt
        \/ upcomingDebt(Without(sales, i), call.now) = Result.upcomingDebt
  /\ Amount(Result.overdueDebt) + Amount(Result.upcomingDebt) =
        SeqSum([i \in 1..Len(sales) |->
                  IF ~IsPaid(sales[i]) /\ Amount(sales[i].balance) > 0
                  THEN Amount(sales[i].balance) ELSE 0])

DebtsAreOutstanding ==
  Amount(Result.overdueDebt) + Amount(Result.upcomingDebt) =
    Amount(Result.outstanding)

\* C24 as stated: each sale adds its balance to at most one of overdueDebt
\* and upcomingDebt, their sum is the sum of the positive balances of the
\* sales that are not PAID, and that sum equals outstanding exactly when no
\* PAID sale stores a non-zero balance and no sale stores a negative one.
C24_DebtPartitionExactly ==
  Returned => (DebtSplit /\ (DebtsAreOutstanding <=> NothingLeftOut))

\* C24, amended: each sale adds its balance to at most one of overdueDebt
\* and upcomingDebt, their sum is the sum of the positive balances of the
\* sales that are not PAID, outstanding exceeds that sum by the balances of
\* the PAID sales and the negative balances, and so the two are equal
\* whenever no PAID sale stores a non-zero balance and no sale a negative
\* one (and also when the balances left out cancel).
C24_DebtPartition ==
  Returned =>
    /\ DebtSplit
    /\ Amount(Result.outstanding) =
         Amount(Result.overdueDebt) + Amount(Result.upcomingDebt)
           + SeqSum([i \in 1..Len(sales) |-> LeftOut(sales[i])])
    /\ NothingLeftOut => DebtsAreOutstanding

\* after the due date, an overdue and an upcoming sale of 100 each: both
\* sums are 100 and outstanding is 200
C24_Witness ==
  /\ Returned
  /\ call.now = DueInstant + 1
  /\ Len(sales) = 2
  /\ NothingLeftOut
  /\ Result.overdueDebt = Num(100)
  /\ Result.upcomingDebt = Num(100)
  /\ Result.outstanding = Num(200)

\* a PAID sale that stores 100 and an UNPAID sale that stores -100: the
\* debt sums and outstanding are all 0
C24_WitnessCancel ==
  /\ Returned
  /\ Len(sales) = 2
  /\ IsPaid(sales[1]) /\ sales[1].balance = Num(100)
  /\ ~IsPaid(sales[2]) /\ sales[2].balance = Num(-100)
  /\ DebtsAreOutstanding
  /\ Result.outstanding = Zero

(***************************************************************************)
(* The record store, src/src/utils/database.js.  A table is the list of    *)
(* its rows in insertion order; a row keeps the columns the operations     *)
(* below read or write.  Every exported function is async: between two of  *)
(* its awaits other calls run.                                             *)
(***************************************************************************)
EngineIdle ==
  /\ sales = <<>>
  /\ expenses = <<>>
  /\ returns = <<>>
  /\ passed = Params
  /\ call = NoCall
  /\ inventory = <<>>
  /\ settings = NoSettings
  /\ proto = <<>>
  /\ kpi = NoCall

\* a connection that initDB has opened and given its schema
SchemaStatements == 8
ReadyHandle == [set |-> TRUE, opened |-> TRUE, schema |-> SchemaStatements]

\* SELECT ... WHERE id=?
RowsWithId(table, id) == SelectSeq(table, LAMBDA r : r.id = id)

\* lines 206-209: rows[0] || null
NoSale ==
  [id |-> Undefined, total |-> Undefined, paid |-> Undefined,
   balance |-> Undefined, status |-> Undefined]
getSaleById(id) ==
  IF RowsWithId(rows.sales, id) = <<>> THEN NoSale
  ELSE RowsWithId(rows.sales, id)[1]

\* Math.max(0, x)
MathMax(a, b) ==
  IF IsNaN(ToNumber(a)) \/ IsNaN(ToNumber(b)) THEN NaN
  ELSE IF Gt(b, a) THEN ToNumber(b) ELSE ToNumber(a)

\* lines 232-234
newPaid(sale, amount) == Plus(Or(sale.paid, Zero), amount)
newBalance(sale, amount) ==
  MathMax(Zero, Minus(Or(sale.total, Zero), newPaid(sale, amount)))
paymentStatus(balance) ==
  IF Le(balance, Zero) THEN Str("PAID") ELSE Str("PARTIAL")

\* lines 235-236: UPDATE sales SET paid=?, balance=?, status=? WHERE id=?
UpdateSale(table, id, paid, balance, status) ==
  [i \in 1..Len(table) |->
     IF table[i].id = id
     THEN [table[i] EXCEPT !.paid = paid, !.balance = balance,
                           !.status = status]
     ELSE table[i]]

IdleTask ==
  [pc |-> "idle", saleId |-> Undefined, amount |-> Undefined, sale |-> NoSale]

\* the amounts stored stay within MaxPaid
MaxPaid == 2000
WithinPaid(sale) == Abs(Amount(sale.paid)) <= MaxPaid

\* line 230-231: the sale is read; a call for a sale that does not exist
\* returns
recordPaymentRead(c, saleId, amount) ==
  /\ tasks[c].pc = "idle"
  /\ WithinPaid(getSaleById(saleId))
  /\ IF getSaleById(saleId) = NoSale
     THEN /\ ret' = [op |-> "recordPayment", st |-> "resolved", val |-> saleId]
          /\ UNCHANGED tasks
     ELSE /\ tasks' = [tasks EXCEPT ![c] =
                         [pc |-> "read", saleId |-> saleId, amount |-> amount,
                          sale |-> getSaleById(saleId)]]
          /\ UNCHANGED ret
  /\ UNCHANGED <<rows, db, fm, shown, clock>>
  /\ UNCHANGED engineVars

\* lines 232-236: the figures are computed from the sale as it was read,
\* and written
recordPaymentWrite(c) ==
  /\ tasks[c].pc = "read"
  /\ rows' = [rows EXCEPT !.sales =
       UpdateSale(@, tasks[c].saleId,
                  newPaid(tasks[c].sale, tasks[c].amount),
                  newBalance(tasks[c].sale, tasks[c].amount),
                  paymentStatus(newBalance(tasks[c].sale, tasks[c].amount)))]
  /\ tasks' = [tasks EXCEPT ![c] = IdleTask]
  /\ ret' = [op |-> "recordPayment", st |-> "resolved", val |-> tasks[c].saleId]
  /\ UNCHANGED <<db, fm, shown, clock>>
  /\ UNCHANGED engineVars

(***************************************************************************)
(* SpecPay: one caller records payments, one after the other, on a sale    *)
(* of 1000 stored as addSale was given it.                                 *)
(***************************************************************************)
SaleRow(id, total, paid, balance, status) ==
  [id |-> Str(id), total |-> Num(total), paid |-> Num(paid),
   balance |-> Num(balance), status |-> Str(status)]

PaySales ==
  {SaleRow("SL-1", 1000, 0, 1000, "UNPAID"),
   SaleRow("SL-1", 1000, 400, 600, "PARTIAL"),
   SaleRow("SL-1", 1000, 1000, 0, "PAID")}

SaleIds == {Str("SL-1"), Str("SL-9")}
PayAmounts == {Num(-400), Zero, Num(400), Num(1000)}

InitPay ==
  /\ EngineIdle
  /\ clock = 0
  /\ \E r \in PaySales : rows = [NoRows EXCEPT !.sales = <<r>>]
  /\ db = ReadyHandle
  /\ tasks = <<IdleTask>>
  /\ ret = NoRet
  /\ fm = NoSave
  /\ shown = NoReport

NextPay ==
  \/ \E id \in SaleIds, a \in PayAmounts : recordPaymentRead(1, id, a)
  \/ recordPaymentWrite(1)

SpecPay == InitPay /\ [][NextPay]_vars

\* the payment of caller c is written in this step
Writes(c) == tasks[c].pc = "read" /\ tasks'[c].pc = "idle"

Stored == rows.sales[1]

\* C21: after every recordPayment on an existing sale the stored paid has
\* grown by the amount, balance = max(0, total - paid), and the status is
\* PAID exactly when balance <= 0, otherwise PARTIAL only if paid > 0,
\* otherwise UNPAID.
C21_PaymentInvariant ==
  [][Writes(1) =>
       /\ Stored'.paid = Num(Stored.paid.n + tasks[1].amount.n)
       /\ Stored'.total = Stored.total
       /\ Stored'.balance =
            Num(IF Stored.total.n - Stored'.paid.n > 0
                THEN Stored.total.n - Stored'.paid.n ELSE 0)
       /\ Stored'.status =
            (IF Stored'.balance.n <= 0 THEN Str("PAID")
             ELSE IF Stored'.paid.n > 0 THEN Str("PARTIAL")
             ELSE Str("UNPAID"))]_vars

\* recordPayment('SL-1', 0) on the unpaid sale has made it PARTIAL with
\* nothing paid
C21_Witness ==
  /\ ret.op = "recordPayment"
  /\ Stored.paid = Zero
  /\ Stored.balance = Num(1000)
  /\ Stored.status = Str("PARTIAL")

\* payments of 400 and 1000 have settled the sale: paid 1400, balance 0,
\* PAID
C21_WitnessSettled ==
  /\ ret.op = "recordPayment"
  /\ Stored.paid = Num(1400)
  /\ Stored.balance = Zero
  /\ Stored.status = Str("PAID")

(***************************************************************************)
(* SpecRace: two callers record payments on the same sale; each call may   *)
(* read while the other is between its read and its write.                 *)
(***************************************************************************)
MaxCallers == 2
Callers == 1..MaxCallers

InitRace ==
  /\ EngineIdle
  /\ clock = 0
  /\ \E r \in PaySales : rows = [NoRows EXCEPT !.sales = <<r>>]
  /\ db = ReadyHandle
  /\ tasks = [c \in Callers |-> IdleTask]
  /\ ret = NoRet
  /\ fm = NoSave
  /\ shown = NoReport

NextRace ==
  \/ \E c \in Callers, id \in SaleIds, a \in PayAmounts :
       recordPaymentRead(c, id, a)
  \/ \E c \in Callers : recordPaymentWrite(c)

SpecRace == InitRace /\ [][NextRace]_vars

\* C25: recordPayment is atomic with respect to other recordPayment calls
\* on the same sale: whatever the interleaving of reads and writes, each
\* call adds its amount to the paid that is stored when it writes, so that
\* after two calls with amounts a and b the stored paid is the initial paid
\* + a + b, and the balance and the status are those of that paid.
C25_PaymentsAtomic ==
  [][\A c \in Callers :
       (tasks[c].pc = "read" /\ tasks'[c].pc = "idle") =>
         /\ Stored'.paid = Num(Stored.paid.n + tasks[c].amount.n)
         /\ Stored'.balance =
              Num(IF Stored.total.n - Stored'.paid.n > 0
                  THEN Stored.total.n - Stored'.paid.n ELSE 0)
         /\ Stored'.status = paymentStatus(Stored'.balance)]_vars

\* two calls are in flight on the unpaid sale, each holding the sale as
\* it read it, with paid 0
C25_Witness ==
  /\ \A c \in Callers : tasks[c].pc = "read" /\ tasks[c].sale = Stored
  /\ Stored.paid = Zero
  /\ tasks[1].amount = Num(400)
  /\ tasks[2].amount = Num(1000)

\* the first call has written its 400; the second still holds paid 0 and
\* is about to write 1000 over it
C25_WitnessStale ==
  /\ tasks[1].pc = "idle"
  /\ tasks[2].pc = "read"
  /\ tasks[2].amount = Num(1000)
  /\ tasks[2].sale.paid = Zero
  /\ Stored.paid = Num(400)

(***************************************************************************)
(* Insertions.  Every add function takes its id from the clock:            *)
(* prefix + Date.now().  id is the PRIMARY KEY of each table, so an INSERT *)
(* of an id the table holds fails, dbRun rejects, and the function ends    *)
(* there.  In the specifications of the record store one Tick is one       *)
(* millisecond.                                                            *)
(***************************************************************************)
NewId(prefix, now) == Str(prefix \o ToString(now))

Conflicts(table, id) == RowsWithId(table, id) # <<>>

Resolved(op, v) == [op |-> op, st |-> "resolved", val |-> v]
Rejected(op, v) == [op |-> op, st |-> "rejected", val |-> v]

\* UPDATE inventory SET stock = stock - ? without MAX(0, ...)
stockAfterSaleUnclamped(stock, qty) == Num(stock.n - qty.n)

\* line 224: MAX(0, stock - ?)
stockAfterSale(stock, qty) ==
  IF stock.n - qty.n > 0 THEN Num(stock.n - qty.n) ELSE Zero

\* line 308: stock + ?
stockAfterReturn(stock, qty) == Num(stock.n + qty.n)

\* UPDATE inventory SET stock = ... WHERE id=?
UpdateStock(table, id, qty, kind) ==
  [i \in 1..Len(table) |->
     IF table[i].id = id
     THEN [table[i] EXCEPT !.stock =
             IF kind = "sale" THEN stockAfterSale(@, qty)
             ELSE stockAfterReturn(@, qty)]
     ELSE table[i]]

\* lines 178-186
addProduct(p) ==
  /\ IF Conflicts(rows.inventory, NewId("PRD-", clock))
     THEN /\ ret' = Rejected("addProduct", NewId("PRD-", clock))
          /\ UNCHANGED rows
     ELSE /\ rows' = [rows EXCEPT !.inventory =
                        Append(@, [id |-> NewId("PRD-", clock),
                                   stock |-> p.stock])]
          /\ ret' = Resolved("addProduct", NewId("PRD-", clock))
  /\ UNCHANGED <<db, tasks, fm, shown, clock>>
  /\ UNCHANGED engineVars

\* lines 211-227: the sale is inserted, then the stock of its product is
\* lowered
addSale(s) ==
  /\ IF Conflicts(rows.sales, NewId("SL-", clock))
     THEN /\ ret' = Rejected("addSale", NewId("SL-", clock))
          /\ UNCHANGED rows
     ELSE /\ rows' =
               [rows EXCEPT
                  !.sales = Append(@, [id |-> NewId("SL-", clock),
                                       total |-> s.total, paid |-> s.paid,
                                       balance |-> s.balance,
                                       status |-> s.status]),
                  !.inventory =
                     IF Truthy(s.inventoryId)
                     THEN UpdateStock(@, s.inventoryId, s.qty, "sale")
                     ELSE @]
          /\ ret' = Resolved("addSale", NewId("SL-", clock))
  /\ UNCHANGED <<db, tasks, fm, shown, clock>>
  /\ UNCHANGED engineVars

\* lines 239-241
deleteSale(id) ==
  /\ rows' = [rows EXCEPT !.sales = SelectSeq(@, LAMBDA r : r.id # id)]
  /\ ret' = Resolved("deleteSale", id)
  /\ UNCHANGED <<db, tasks, fm, shown, clock>>
  /\ UNCHANGED engineVars

\* lines 298-311: the return is logged, then the stock is raised
addReturn(r) ==
  /\ IF Conflicts(rows.returns_log, NewId("RET-", clock))
     THEN /\ ret' = Rejected("addReturn", NewId("RET-", clock))
          /\ UNCHANGED rows
     ELSE /\ rows' =
               [rows EXCEPT
                  !.returns_log = Append(@, [id |-> NewId("RET-", clock),
                                             qty |-> r.qty]),
                  !.inventory =
                     IF Truthy(r.inventoryId)
                     THEN UpdateStock(@, r.inventoryId, r.qty, "return")
                     ELSE @]
          /\ ret' = Resolved("addReturn", NewId("RET-", clock))
  /\ UNCHANGED <<db, tasks, fm, shown, clock>>
  /\ UNCHANGED engineVars

(***************************************************************************)
(* SpecLedger: one product with a stock of 0 or 3; sales of 0, 2 or 5      *)
(* units and returns of 2 or 5, of it or of no product; sales are deleted. *)
(***************************************************************************)
Quantities == {Num(2), Num(5)}
ProductIds == {Undefined, Str("PRD-1")}

SaleInputs ==
  {[total |-> Num(1000), paid |-> Zero, balance |-> Num(1000),
    status |-> Str("UNPAID"), qty |-> q, inventoryId |-> p] :
     q \in Quantities \cup {Zero}, p \in ProductIds}

ReturnInputs == {[qty |-> q, inventoryId |-> p] : q \in Quantities, p \in ProductIds}

FirstInstant == DueInstant - 1

InitLedger ==
  /\ EngineIdle
  /\ clock = FirstInstant
  /\ \E st \in {Zero, Num(3)} :
       rows = [NoRows EXCEPT !.inventory = <<[id |-> Str("PRD-1"), stock |-> st]>>]
  /\ db = ReadyHandle
  /\ tasks = NoTasks
  /\ ret = NoRet
  /\ fm = NoSave
  /\ shown = NoReport

NextLedger ==
  \/ \E s \in SaleInputs : addSale(s)
  \/ \E r \in ReturnInputs : addReturn(r)
  \/ \E t \in FirstInstant..(FirstInstant + MaxTicks) : deleteSale(NewId("SL-", t))
  \/ Tick

SpecLedger == InitLedger /\ [][NextLedger]_vars

Product == rows.inventory[1]

Smaller(a, b) == IF a < b THEN a ELSE b

\* C26: stock never becomes negative under sales and returns of
\* non-negative quantities: a sale that is inserted lowers the stock of its
\* product by min(stock, qty), a return that is logged raises it by qty,
\* deleteSale leaves it unchanged, and a sale followed by the return of the
\* same quantity restores the stock only when the stock covered the sale.
C26_StockNeverNegative ==
  [][/\ Product'.stock.n >= 0
     /\ \A s \in SaleInputs :
          (addSale(s) /\ ret'.st = "resolved") =>
            Product'.stock.n =
              (IF s.inventoryId = Product.id
               THEN Product.stock.n - Smaller(Product.stock.n, s.qty.n)
               ELSE Product.stock.n)
     /\ \A r \in ReturnInputs :
          (addReturn(r) /\ ret'.st = "resolved") =>
            Product'.stock.n =
              (IF r.inventoryId = Product.id
               THEN Product.stock.n + r.qty.n ELSE Product.stock.n)
     /\ ret'.st = "rejected" => rows' = rows
     /\ ret'.op = "deleteSale" => Product' = Product
     /\ \A q \in Quantities :
          stockAfterReturn(stockAfterSale(Product.stock, q), q) = Product.stock
            => q.n <= Product.stock.n]_vars

\* a sale of 5 units of the product that had 3 in stock has been followed
\* by the return of the 5: the stock is 5, with one sale and one return
\* on record
C26_Witness ==
  /\ Len(rows.sales) = 1
  /\ Len(rows.returns_log) = 1
  /\ ret.op = "addReturn"
  /\ ret.st = "resolved"
  /\ Product.stock = Num(5)

\* the sale of 5 units has emptied a stock of 3
C26_WitnessEmptied ==
  /\ Len(rows.sales) = 1
  /\ rows.returns_log = <<>>
  /\ ret.op = "addSale"
  /\ ret.st = "resolved"
  /\ Product.stock = Zero

(***************************************************************************)
(* The other insertions.                                                   *)
(***************************************************************************)
\* lines 248-256
addExpense(e) ==
  /\ IF Conflicts(rows.expenses, NewId("EXP-", clock))
     THEN /\ ret' = Rejected("addExpense", NewId("EXP-", clock))
          /\ UNCHANGED rows
     ELSE /\ rows' = [rows EXCEPT !.expenses =
                        Append(@, [id |-> NewId("EXP-", clock),
                                   amount |-> e.amount])]
          /\ ret' = Resolved("addExpense", NewId("EXP-", clock))
  /\ UNCHANGED <<db, tasks, fm, shown, clock>>
  /\ UNCHANGED engineVars

\* lines 268-275
addSupplier(p) ==
  /\ IF Conflicts(rows.suppliers, NewId("SUP-", clock))
     THEN /\ ret' = Rejected("addSupplier", NewId("SUP-", clock))
          /\ UNCHANGED rows
     ELSE /\ rows' = [rows EXCEPT !.suppliers =
                        Append(@, [id |-> NewId("SUP-", clock),
                                   name |-> p.name])]
          /\ ret' = Resolved("addSupplier", NewId("SUP-", clock))
  /\ UNCHANGED <<db, tasks, fm, shown, clock>>
  /\ UNCHANGED engineVars

\* COLLATE NOCASE: the 26 ASCII upper-case letters equal their lower case
UpperCase == "ABCDEFGHIJKLMNOPQRSTUVWXYZ"
LowerCase == "abcdefghijklmnopqrstuvwxyz"
FoldChar(c) ==
  IF \E i \in 1..Len(UpperCase) : SubSeq(UpperCase, i, i) = c
  THEN LET i == CHOOSE i \in 1..Len(UpperCase) : SubSeq(UpperCase, i, i) = c
       IN SubSeq(LowerCase, i, i)
  ELSE c
NoCase(x) ==
  LET F[i \in 0..Len(x)] ==
        IF i = 0 THEN "" ELSE F[i - 1] \o FoldChar(SubSeq(x, i, i))
  IN F[Len(x)]

\* lines 287-293: the customer of that name, whatever the case, or a new one
upsertCustomer(name) ==
  /\ IF \E i \in 1..Len(rows.customers) :
          NoCase(rows.customers[i].name.s) = NoCase(name.s)
     THEN /\ ret' = Resolved("upsertCustomer",
                 SelectSeq(rows.customers,
                           LAMBDA r : NoCase(r.name.s) = NoCase(name.s))[1].id)
          /\ UNCHANGED rows
     ELSE IF Conflicts(rows.customers, NewId("CUS-", clock))
     THEN /\ ret' = Rejected("upsertCustomer", NewId("CUS-", clock))
          /\ UNCHANGED rows
     ELSE /\ rows' = [rows EXCEPT !.customers =
                        Append(@, [id |-> NewId("CUS-", clock),
                                   name |-> name])]
          /\ ret' = Resolved("upsertCustomer", NewId("CUS-", clock))
  /\ UNCHANGED <<db, tasks, fm, shown, clock>>
  /\ UNCHANGED engineVars

(***************************************************************************)
(* SpecIds: records of every kind are added, several of them within one    *)
(* millisecond, until the database holds MaxRows rows.                     *)
(***************************************************************************)
MaxRows == 3

RowCount ==
  Len(rows.sales) + Len(rows.inventory) + Len(rows.expenses)
    + Len(rows.suppliers) + Len(rows.customers) + Len(rows.returns_log)

OneSale ==
  [total |-> Num(1000), paid |-> Zero, balance |-> Num(1000),
   status |-> Str("UNPAID"), qty |-> Num(2), inventoryId |-> Undefined]

CustomerInputs == {Str("Amina"), Str("amina"), Str("Brian")}

InitIds ==
  /\ EngineIdle
  /\ clock = FirstInstant
  /\ rows = NoRows
  /\ db = ReadyHandle
  /\ tasks = NoTasks
  /\ ret = NoRet
  /\ fm = NoSave
  /\ shown = NoReport

NextIds ==
  \/ RowCount < MaxRows /\ addProduct([stock |-> Num(3)])
  \/ RowCount < MaxRows /\ addSale(OneSale)
  \/ RowCount < MaxRows /\ addExpense([amount |-> Num(100)])
  \/ RowCount < MaxRows /\ addSupplier([name |-> Str("Kato")])
  \/ RowCount < MaxRows /\ addReturn([qty |-> Num(2), inventoryId |-> Undefined])
  \/ RowCount < MaxRows /\ \E n \in CustomerInputs : upsertCustomer(n)
  \/ Tick

SpecIds == InitIds /\ [][NextIds]_vars

Tables ==
  {"sales", "inventory", "expenses", "suppliers", "customers", "returns_log"}

\* C27: the ids assigned by addSale, addProduct, addExpense, addSupplier,
\* addReturn and upsertCustomer are unique within their table, also for
\* insertions within one millisecond: no two rows of a table have the same
\* id, and no insertion fails on a primary-key conflict.
C27_IdsUnique ==
  /\ \A t \in Tables : \A i, j \in 1..Len(rows[t]) :
       rows[t][i].id = rows[t][j].id => i = j
  /\ ret.st # "rejected"

\* the second addSale of one millisecond was rejected: the table still
\* holds the one sale of that millisecond
C27_Witness ==
  /\ clock = FirstInstant
  /\ ret = Rejected("addSale", NewId("SL-", clock))
  /\ Len(rows.sales) = 1
  /\ rows.sales[1].id = NewId("SL-", clock)

\* customers 'Amina' and 'Brian' added in different milliseconds, and
\* 'amina' found again: three calls, two rows, two ids
C27_WitnessDistinct ==
  /\ Len(rows.customers) = 2
  /\ rows.customers[1].id # rows.customers[2].id
  /\ ret = Resolved("upsertCustomer", rows.customers[1].id)
  /\ clock > FirstInstant + 1

(***************************************************************************)
(* Backup and restore.                                                     *)
(***************************************************************************)
\* lines 331-341: every table as it is read (the ORDER BY of each query
\* permutes the rows; the comparison below ignores order)
exportAllData ==
  [settings  |-> settings,
   inventory |-> rows.inventory,
   sales     |-> rows.sales,
   expenses  |-> rows.expenses,
   suppliers |-> rows.suppliers,
   customers |-> rows.customers,
   returns   |-> rows.returns_log]

\* lines 351-353: the three re-insert loops, in the order of their calls
Reinserted(data) ==
  [i \in 1..Len(data.inventory) |->
     [table |-> "inventory", prefix |-> "PRD-", item |-> data.inventory[i]]]
  \o [i \in 1..Len(data.expenses) |->
        [table |-> "expenses", prefix |-> "EXP-", item |-> data.expenses[i]]]
  \o [i \in 1..Len(data.suppliers) |->
        [table |-> "suppliers", prefix |-> "SUP-", item |-> data.suppliers[i]]]

\* one awaited addProduct / addExpense / addSupplier of the loops: the item
\* gets a new id from the clock, which has advanced by gap milliseconds
\* since the call before; the first INSERT that is refused ends the import
ReinsertOne(st, ins, gap) ==
  IF st.failed THEN st
  ELSE IF Conflicts(st.rows[ins.table], NewId(ins.prefix, st.now + gap))
  THEN [st EXCEPT !.failed = TRUE, !.now = st.now + gap,
                  !.id = NewId(ins.prefix, st.now + gap)]
  ELSE [st EXCEPT !.now = st.now + gap,
                  !.rows[ins.table] =
                     Append(@, [ins.item EXCEPT
                                  !.id = NewId(ins.prefix, st.now + gap)])]

\* lines 346-353: every table is emptied, then the loops run
Reinsert(calls, now, gaps) ==
  LET After[i \in 0..Len(calls)] ==
        IF i = 0
        THEN [rows |-> NoRows, now |-> now, failed |-> FALSE, id |-> Undefined]
        ELSE ReinsertOne(After[i - 1], calls[i], gaps[i])
  IN After[Len(calls)]

\* lines 343-355
importAllData(data) ==
  /\ db.set
  /\ \E gaps \in [1..Len(Reinserted(data)) -> {0, 1}] :
       \E done \in {Reinsert(Reinserted(data), clock, gaps)} :
         /\ done.now <= FirstInstant + MaxTicks
         /\ rows' = done.rows
         /\ clock' = done.now
         /\ IF done.failed
            THEN /\ ret' = Rejected("importAllData", done.id)
                 /\ UNCHANGED settings
            ELSE /\ ret' = Resolved("importAllData", Undefined)
                 /\ settings' = IF data.settings # <<>> THEN data.settings
                                ELSE settings
  /\ UNCHANGED <<sales, expenses, returns, passed, call, inventory, proto, kpi>>
  /\ UNCHANGED <<db, tasks, fm, shown>>

(***************************************************************************)
(* SpecBackup: a database with a record of every kind, to which products   *)
(* and expenses are added, is exported and imported again.                 *)
(***************************************************************************)
MaxBackupRows == 2

BackupRows ==
  [sales       |-> <<SaleRow("SL-1", 1000, 0, 1000, "UNPAID")>>,
   inventory   |-> <<[id |-> Str("PRD-1"), stock |-> Num(3)]>>,
   expenses    |-> <<[id |-> Str("EXP-1"), amount |-> Num(100)]>>,
   suppliers   |-> <<[id |-> Str("SUP-1"), name |-> Str("Kato")]>>,
   customers   |-> <<[id |-> Str("CUS-1"), name |-> Str("Amina")]>>,
   returns_log |-> <<[id |-> Str("RET-1"), qty |-> Num(2)]>>]

InitBackup ==
  /\ sales = <<>>
  /\ expenses = <<>>
  /\ returns = <<>>
  /\ passed = Params
  /\ call = NoCall
  /\ inventory = <<>>
  /\ settings \in SettingsRows
  /\ proto = <<>>
  /\ kpi = NoCall
  /\ clock = FirstInstant
  /\ rows \in {BackupRows, [BackupRows EXCEPT !.inventory = <<>>]}
  /\ db = ReadyHandle
  /\ tasks = NoTasks
  /\ ret = NoRet
  /\ fm = NoSave
  /\ shown = NoReport

RoundTrip == importAllData(exportAllData)

NextBackup ==
  \/ Len(rows.inventory) < MaxBackupRows
       /\ \E st \in {Zero, Num(3)} : addProduct([stock |-> st])
  \/ Len(rows.expenses) < MaxBackupRows /\ addExpense([amount |-> Num(250)])
  \/ RoundTrip
  \/ Tick

SpecBackup == InitBackup /\ [][NextBackup]_vars

\* a record without its id
Content(r) == [f \in DOMAIN r \ {"id"} |-> r[f]]

\* the same records, each as often, whatever their order and their ids
SameRecords(before, after) ==
  /\ Len(before) = Len(after)
  /\ \A i \in 1..Len(before) :
       Cardinality({j \in 1..Len(before) : Content(before[j]) = Content(before[i])})
         = Cardinality({j \in 1..Len(after) : Content(after[j]) = Content(before[i])})

\* C22: backup and restore is a full round trip: importAllData(exportAllData())
\* completes without error, and afterwards the database holds the same
\* settings, inventory, sales, expenses, suppliers, customers and returns
\* records as before (here: the same up to their ids and their order).
C22_RoundTrip ==
  [][RoundTrip =>
       /\ ret'.st = "resolved"
       /\ settings' = settings
       /\ \A t \in Tables : SameRecords(rows[t], rows'[t])]_vars

\* an import that completed: the product, the expense and the supplier are
\* back, the sale, the customer and the return are gone
C22_Witness ==
  /\ ret = Resolved("importAllData", Undefined)
  /\ Len(rows.inventory) = 1
  /\ Len(rows.expenses) = 1
  /\ Len(rows.suppliers) = 1
  /\ rows.sales = <<>>
  /\ rows.customers = <<>>
  /\ rows.returns_log = <<>>

\* an import that failed on its second product: one product of two is back
\* and nothing else
C22_WitnessRejected ==
  /\ ret.op = "importAllData"
  /\ ret.st = "rejected"
  /\ Len(rows.inventory) = 1
  /\ ret.val = rows.inventory[1].id
  /\ rows.expenses = <<>>
  /\ rows.suppliers = <<>>

(***************************************************************************)
(* The database handle.  db is the module-level variable of database.js:   *)
(* set says that it is non-null, opened that its connection is open,       *)
(* schema how many statements of SCHEMA have been executed on it.  The     *)
(* plugin calls (createConnection or retrieveConnection, open, execute)    *)
(* succeed or fail as the platform decides.                                *)
(***************************************************************************)
Bool(b) == [t |-> "boolean", n |-> IF b THEN 1 ELSE 0, s |-> ""]

HandleReady == db.set /\ db.opened /\ db.schema = SchemaStatements

IdleInit == [pc |-> "idle", by |-> "none", stmt |-> 0]

\* line 106: the application calls initDB
initDB(c) ==
  /\ tasks[c].pc = "idle"
  /\ tasks' = [tasks EXCEPT ![c] = [pc |-> "connect", by |-> "app", stmt |-> 0]]
  /\ UNCHANGED <<rows, db, ret, fm, shown, clock>>
  /\ UNCHANGED engineVars

\* lines 135-140: return true, or the catch block's return false; a call
\* made by dbQuery goes on with its statement
initDBReturn(c, ok) ==
  /\ tasks' = [tasks EXCEPT ![c] =
                 [pc |-> IF tasks[c].by = "dbQuery" THEN "query" ELSE "idle",
                  by |-> "none", stmt |-> 0]]
  /\ ret' = Resolved("initDB", Bool(ok))

\* lines 109-119 and 123-127: db is assigned as soon as the connection
\* exists; a retrieved connection is as it was left
createConnection(c, ok, retrieved) ==
  /\ tasks[c].pc = "connect"
  /\ IF ok
     THEN /\ db' = [set |-> TRUE, opened |-> retrieved /\ db.opened,
                    schema |-> db.schema]
          /\ tasks' = [tasks EXCEPT ![c].pc = "open"]
          /\ UNCHANGED ret
     ELSE /\ initDBReturn(c, FALSE)
          /\ UNCHANGED db
  /\ UNCHANGED <<rows, fm, shown, clock>>
  /\ UNCHANGED engineVars

\* lines 120 and 127: await db.open()
open(c, ok) ==
  /\ tasks[c].pc = "open"
  /\ IF ok
     THEN /\ db' = [db EXCEPT !.opened = TRUE]
          /\ tasks' = [tasks EXCEPT ![c].pc = "schema", ![c].stmt = 1]
          /\ UNCHANGED ret
     ELSE /\ initDBReturn(c, FALSE)
          /\ UNCHANGED db
  /\ UNCHANGED <<rows, fm, shown, clock>>
  /\ UNCHANGED engineVars

\* lines 130-136: the statements of SCHEMA one after the other (each is
\* CREATE TABLE IF NOT EXISTS or INSERT OR IGNORE: executing it again
\* changes nothing)
execute(c, ok) ==
  /\ tasks[c].pc = "schema"
  /\ IF ~ok
     THEN /\ initDBReturn(c, FALSE)
          /\ UNCHANGED db
     ELSE /\ db' = [db EXCEPT !.schema = IF tasks[c].stmt > @ THEN tasks[c].stmt
                                         ELSE @]
          /\ IF tasks[c].stmt = SchemaStatements
             THEN initDBReturn(c, TRUE)
             ELSE /\ tasks' = [tasks EXCEPT ![c].stmt = @ + 1]
                  /\ UNCHANGED ret
  /\ UNCHANGED <<rows, fm, shown, clock>>
  /\ UNCHANGED engineVars

\* lines 146-147 (dbRun, lines 152-153, is the same): if (!db) await initDB()
dbQuery(c) ==
  /\ tasks[c].pc = "idle"
  /\ tasks' = [tasks EXCEPT ![c] =
                 IF ~db.set
                 THEN [pc |-> "connect", by |-> "dbQuery", stmt |-> 0]
                 ELSE [pc |-> "query", by |-> "none", stmt |-> 0]]
  /\ UNCHANGED <<rows, db, ret, fm, shown, clock>>
  /\ UNCHANGED engineVars

\* lines 148-149 (dbRun: line 154): db.query(sql, values) on whatever db is:
\* a TypeError on null, the plugin's error on a connection that is not open
\* or has no tables
runStatement(c) ==
  /\ tasks[c].pc = "query"
  /\ tasks' = [tasks EXCEPT ![c] = IdleInit]
  /\ ret' = IF ~db.set THEN Rejected("dbQuery", Str("TypeError"))
            ELSE IF ~HandleReady THEN Rejected("dbQuery", Str("SQLiteError"))
            ELSE Resolved("dbQuery", Undefined)
  /\ UNCHANGED <<rows, db, fm, shown, clock>>
  /\ UNCHANGED engineVars

(***************************************************************************)
(* SpecInit: initDB and queries, one call at a time, on a platform whose   *)
(* plugin calls may fail.                                                  *)
(***************************************************************************)
InitInit ==
  /\ EngineIdle
  /\ clock = 0
  /\ rows = NoRows
  /\ db = NoHandle
  /\ tasks = <<IdleInit>>
  /\ ret = NoRet
  /\ fm = NoSave
  /\ shown = NoReport

NextInit ==
  \/ initDB(1)
  \/ \E ok \in BOOLEAN, retrieved \in BOOLEAN : createConnection(1, ok, retrieved)
  \/ \E ok \in BOOLEAN : open(1, ok)
  \/ \E ok \in BOOLEAN : execute(1, ok)
  \/ dbQuery(1)
  \/ runStatement(1)

SpecInit == InitInit /\ [][NextInit]_vars

\* C28: the handle is set only by a successful initialisation: whenever db
\* is non-null after initDB has returned, the connection is open and every
\* schema statement has been executed; no statement is run on a handle that
\* is null or whose connection is not open or lacks the schema; and the
\* dbQuery/dbRun after a failed initDB initialises again.
C28_HandleOnlyAfterSuccess ==
  [][/\ (ret'.op = "initDB" /\ db'.set) => HandleReady'
     /\ runStatement(1) => HandleReady
     /\ (dbQuery(1) /\ ret = Resolved("initDB", Bool(FALSE)))
          => tasks'[1].pc = "connect"]_vars

\* initDB has returned false because open() failed, and db is non-null
C28_Witness ==
  /\ ret = Resolved("initDB", Bool(FALSE))
  /\ tasks[1].pc = "idle"
  /\ db.set
  /\ ~db.opened

\* the statement of the next dbQuery has been run on that handle
C28_WitnessStatement ==
  /\ ret = Rejected("dbQuery", Str("SQLiteError"))
  /\ db.set
  /\ ~db.opened

\* initDB has returned true: connection open, all statements executed
C28_WitnessReady ==
  /\ ret = Resolved("initDB", Bool(TRUE))
  /\ HandleReady

(***************************************************************************)
(* The file manager.  fm holds the call of saveAndShare in progress (pc,   *)
(* native, name), what it has done (saved: the file of this call is in     *)
(* place; shared: the share sheet was opened), its result, and the files   *)
(* of the Documents directory (on the web: of the browser's downloads).    *)
(* Filesystem.writeFile, Share.share and the browser download succeed or   *)
(* fail as the platform decides; what they throw is an Error.              *)
(***************************************************************************)
Saved == [st |-> "resolved", success |-> TRUE]
Failed == [st |-> "resolved", success |-> FALSE]

\* lines 21-41: on the web the file is downloaded within the call; on a
\* device the first write is awaited
saveAndShare(filename, native, ok) ==
  /\ fm.pc = "idle"
  /\ fm' = IF native
           THEN [fm EXCEPT !.pc = "write", !.native = TRUE, !.name = filename,
                           !.saved = FALSE, !.shared = FALSE,
                           !.result = NoSave.result]
           ELSE [fm EXCEPT !.native = FALSE, !.name = filename,
                           !.saved = ok, !.shared = FALSE,
                           !.result = IF ok THEN Saved ELSE Failed,
                           !.files = IF ok THEN @ \cup {filename} ELSE @]
  /\ UNCHANGED <<rows, db, tasks, ret, shown, clock>>
  /\ UNCHANGED engineVars

\* lines 43-49: the first Filesystem.writeFile; its rejection is caught at
\* line 60
writeFile(ok) ==
  /\ fm.pc = "write"
  /\ fm' = IF ok
           THEN [fm EXCEPT !.pc = "share", !.saved = TRUE,
                           !.files = @ \cup {fm.name}]
           ELSE [fm EXCEPT !.pc = "again"]
  /\ UNCHANGED <<rows, db, tasks, ret, shown, clock>>
  /\ UNCHANGED engineVars

\* lines 51-59: Share.share; a failed or cancelled share is caught at
\* line 60
share(ok) ==
  /\ fm.pc = "share"
  /\ fm' = IF ok
           THEN [fm EXCEPT !.pc = "idle", !.shared = TRUE, !.result = Saved]
           ELSE [fm EXCEPT !.pc = "again", !.shared = TRUE]
  /\ UNCHANGED <<rows, db, tasks, ret, shown, clock>>
  /\ UNCHANGED engineVars

\* lines 60-74: the catch block writes the file once more; a write that
\* fails leaves the file of the first write in place (kept) or not
writeFileAgain(ok, kept) ==
  /\ fm.pc = "again"
  /\ fm' = IF ok
           THEN [fm EXCEPT !.pc = "idle", !.saved = TRUE, !.result = Saved,
                           !.files = @ \cup {fm.name}]
           ELSE [fm EXCEPT !.pc = "idle", !.saved = @ /\ kept,
                           !.result = Failed,
                           !.files = IF kept THEN @ ELSE @ \ {fm.name}]
  /\ UNCHANGED <<rows, db, tasks, ret, shown, clock>>
  /\ UNCHANGED engineVars

(***************************************************************************)
(* SpecFiles: exports are saved and shared, one call after the other.      *)
(***************************************************************************)
FileNames == {"backup.json", "report.xlsx", "receipt.pdf"}

InitFiles ==
  /\ EngineIdle
  /\ clock = 0
  /\ rows = NoRows
  /\ db = NoHandle
  /\ tasks = NoTasks
  /\ ret = NoRet
  /\ fm = NoSave
  /\ shown = NoReport

NextFiles ==
  \/ \E f \in FileNames, native \in BOOLEAN, ok \in BOOLEAN :
       saveAndShare(f, native, ok)
  \/ \E ok \in BOOLEAN : writeFile(ok)
  \/ \E ok \in BOOLEAN : share(ok)
  \/ \E ok \in BOOLEAN, kept \in BOOLEAN : writeFileAgain(ok, kept)

SpecFiles == InitFiles /\ [][NextFiles]_vars

\* C29: saveAndShare never rejects; once it has returned, its result is
\* {success: true, path} if the file was saved (also when the share failed
\* after a successful write) and {success: false, error} only if it was not;
\* the share sheet is opened only after a successful write.
C29_SuccessIffSaved ==
  /\ fm.result.st # "rejected"
  /\ (fm.pc = "idle" /\ fm.result.st = "resolved")
       => (fm.result.success <=> fm.saved)
  /\ fm.pc = "share" => fm.saved

\* written, share failed, second write failed and left the first file:
\* the file is in Documents and the result is {success: false}
C29_Witness ==
  /\ fm.pc = "idle"
  /\ fm.native
  /\ fm.shared
  /\ fm.saved
  /\ fm.name \in fm.files
  /\ fm.result = Failed

\* written, share cancelled, written again: {success: true}
C29_WitnessSecondWrite ==
  /\ fm.pc = "idle"
  /\ fm.native
  /\ fm.shared
  /\ fm.saved
  /\ fm.result = Saved

(***************************************************************************)
(* The report renderers.  Each computes its figures from the arrays it is  *)
(* given; shown is what the last renderer put into its document: the sums  *)
(* as numbers, the rates as the texts of their cells, the groupings in the *)
(* order of their rows.                                                    *)
(***************************************************************************)
\* pdfReceipt.js lines 268-273, the body of the loop
catStep(o, s) ==
  LET c == categoryOf(s)
      o1 == IF Absent(o, c)
            THEN Append(o, [k |-> c, v |-> [rev |-> Zero, qty |-> Zero]])
            ELSE o
  IN IF HasOwn(o1, c)
     THEN [o1 EXCEPT ![OwnIndex(o1, c)].v =
             [rev |-> Plus(@.rev, Or(s.total, Zero)),
              qty |-> Plus(@.qty, Or(s.qty, Zero))]]
     ELSE o1

\* pdfReceipt.js lines 267-275: the rows Category, Units Sold, Revenue
catRows(ss) ==
  LET F[i \in 0..Len(ss)] == IF i = 0 THEN <<>> ELSE catStep(F[i - 1], ss[i])
      sorted == SortBy(ObjectEntries(F[Len(ss)]), "rev")
  IN [i \in 1..Len(sorted) |->
        [name |-> sorted[i].k, qty |-> sorted[i].v.qty,
         revenue |-> sorted[i].v.rev]]

\* pdfReceipt.js lines 298-303: the rows Category, Amount
expRows(es) ==
  LET F[i \in 0..Len(es)] ==
        IF i = 0 THEN <<>>
        ELSE Put(F[i - 1], Key(es[i].category),
                 Plus(Or(Get(F[i - 1], Key(es[i].category)), Zero),
                      Or(es[i].amount, Zero)))
      sorted == SortBy(ObjectEntries(F[Len(es)]), "amount")
  IN [i \in 1..Len(sorted) |->
        [category |-> sorted[i].k, amount |-> sorted[i].v]]

\* pdfReceipt.js lines 205-354
generatePLReport(reportData) ==
  LET rev == ReduceSum([i \in 1..Len(reportData.sales) |->
                          Or(reportData.sales[i].total, Zero)])
      col == ReduceSum([i \in 1..Len(reportData.sales) |->
                          Or(reportData.sales[i].paid, Zero)])
      cost == ReduceSum([i \in 1..Len(reportData.sales) |->
                           Times(Or(reportData.sales[i].qty, Zero),
                                 Or(reportData.sales[i].costPrice, Zero))])
      gross == Minus(rev, cost)
      exp == ReduceSum([i \in 1..Len(reportData.expenses) |->
                          Or(reportData.expenses[i].amount, Zero)])
      net == Minus(gross, exp)
      ref == ReduceSum([i \in 1..Len(reportData.returns) |->
                          Or(reportData.returns[i].refund, Zero)])
      gm == IF Gt(rev, Zero) THEN PctFixed1(gross, rev) ELSE Str("0.0")
      nm == IF Gt(rev, Zero) THEN PctFixed1(net, rev) ELSE Str("0.0")
  IN [by |-> "generatePLReport",
      revenue |-> rev, collected |-> col, cogs |-> cost,
      grossProfit |-> gross, totalExpenses |-> exp, netProfit |-> net,
      refunds |-> ref,
      \* line 251: `${revenue > 0 ? (...).toFixed(1) : 0}%`
      collectionRate |->
        Plus(IF Gt(rev, Zero) THEN PctFixed1(col, rev) ELSE Zero, Str("%")),
      \* lines 255, 258: `... Margin ${gm}%`
      grossMargin |-> Plus(gm, Str("%")),
      netMargin |-> Plus(nm, Str("%")),
      categoryBreakdown |-> catRows(reportData.sales),
      expenseBreakdown |-> expRows(reportData.expenses)]

\* part_001 lines 64, 69, 74: revenue > 0 ? (...).toFixed(1) + '%' : '0%'
sheetRate(x, base) ==
  IF Gt(base, Zero) THEN Plus(PctFixed1(x, base), Str("%")) ELSE Str("0%")

\* part_001 lines 48-83: the sheet 'P&L Summary' of the full export
exportToExcel(data) ==
  LET rev == ReduceSum([i \in 1..Len(data.sales) |->
                          Or(data.sales[i].total, Zero)])
      col == ReduceSum([i \in 1..Len(data.sales) |->
                          Or(data.sales[i].paid, Zero)])
      cost == ReduceSum([i \in 1..Len(data.sales) |->
                           Times(Or(data.sales[i].qty, Zero),
                                 Or(data.sales[i].costPrice, Zero))])
      gross == Minus(rev, cost)
      exp == ReduceSum([i \in 1..Len(data.expenses) |->
                          Or(data.expenses[i].amount, Zero)])
      net == Minus(gross, exp)
      ref == ReduceSum([i \in 1..Len(data.returns) |->
                          Or(data.returns[i].refund, Zero)])
  IN [by |-> "exportToExcel",
      revenue |-> rev, collected |-> col, cogs |-> cost,
      grossProfit |-> gross, totalExpenses |-> exp, netProfit |-> net,
      refunds |-> ref,
      collectionRate |-> sheetRate(col, rev),
      grossMargin |-> sheetRate(gross, rev),
      netMargin |-> sheetRate(net, rev)]

\* part_001 lines 139-153: the sheet 'P&L Summary' of the period report
exportReportToExcel(reportData) ==
  LET rev == ReduceSum([i \in 1..Len(reportData.sales) |->
                          Or(reportData.sales[i].total, Zero)])
      cost == ReduceSum([i \in 1..Len(reportData.sales) |->
                           Times(Or(reportData.sales[i].qty, Zero),
                                 Or(reportData.sales[i].costPrice, Zero))])
      gross == Minus(rev, cost)
      exp == ReduceSum([i \in 1..Len(reportData.expenses) |->
                          Or(reportData.expenses[i].amount, Zero)])
      net == Minus(gross, exp)
  IN [by |-> "exportReportToExcel",
      revenue |-> rev, cogs |-> cost, grossProfit |-> gross,
      totalExpenses |-> exp, netProfit |-> net,
      grossMargin |-> sheetRate(gross, rev),
      netMargin |-> sheetRate(net, rev)]

\* the arrays a renderer is given
Snapshot == [sales |-> sales, expenses |-> expenses, returns |-> returns]

Render(document) ==
  /\ shown' = document
  /\ UNCHANGED <<rows, db, tasks, ret, fm, clock>>
  /\ UNCHANGED engineVars

(***************************************************************************)
(* SpecReport: the engine and the three renderers are applied to the same  *)
(* snapshot.  The categories and customers of the snapshot do not name     *)
(* members of Object.prototype.                                            *)
(***************************************************************************)
MaxReportSales == 2

ReportSales ==
  {[BaseSale EXCEPT !.total = Num(1000), !.paid = Num(400), !.qty = Num(2),
                    !.costPrice = Num(300), !.category = Str("Food")],
   [BaseSale EXCEPT !.total = Num(1500), !.paid = Num(1500), !.qty = Num(5),
                    !.costPrice = Num(100)],
   [BaseSale EXCEPT !.qty = Num(1), !.category = Str("Drinks")]}

ReportExpenses ==
  {<<>>,
   <<[BaseExpense EXCEPT !.amount = Num(100), !.category = Str("Rent")],
     [BaseExpense EXCEPT !.amount = Num(250), !.category = Str("Fuel")]>>}

ReportReturns == {<<>>, <<[BaseReturn EXCEPT !.refund = Num(50)]>>}

InitReport ==
  /\ sales \in SeqsUpTo(ReportSales, MaxReportSales)
  /\ expenses \in ReportExpenses
  /\ returns \in ReportReturns
  /\ passed = Params
  /\ clock = DueInstant
  /\ call = NoCall
  /\ inventory = <<>>
  /\ settings = NoSettings
  /\ proto = <<>>
  /\ kpi = NoCall
  /\ AppIdle

NextReport ==
  \/ CallComputePL
  \/ Render(generatePLReport(Snapshot))
  \/ Render(exportToExcel(Snapshot))
  \/ Render(exportReportToExcel(Snapshot))

SpecReport == InitReport /\ [][NextReport]_vars

\* the engine's figures as a document shows them: the rates with their
\* percent sign, of each category its name, units and revenue, of each
\* expense group its category and amount
Figures(pl) ==
  [revenue |-> pl.revenue, collected |-> pl.collected, cogs |-> pl.cogs,
   grossProfit |-> pl.grossProfit, totalExpenses |-> pl.totalExpenses,
   netProfit |-> pl.netProfit, refunds |-> pl.refunds,
   collectionRate |-> Plus(pl.collectionRate, Str("%")),
   grossMargin |-> Plus(pl.grossMargin, Str("%")),
   netMargin |-> Plus(pl.netMargin, Str("%")),
   categoryBreakdown |->
     [i \in 1..Len(pl.categoryBreakdown) |->
        [name |-> pl.categoryBreakdown[i].name,
         qty |-> pl.categoryBreakdown[i].qty,
         revenue |-> pl.categoryBreakdown[i].revenue]],
   expenseBreakdown |->
     [i \in 1..Len(pl.expenseBreakdown) |->
        [category |-> pl.expenseBreakdown[i].category,
         amount |-> pl.expenseBreakdown[i].amount]]]

\* C23: the renderers show the engine's figures: for the same sales,
\* expenses and returns, every figure that generatePLReport, exportToExcel
\* or exportReportToExcel has put into its document (sums, profits, rates,
\* groupings) equals the corresponding field of computePL's result.
C23_RenderersShowEngineFigures ==
  (call.st = "returned" /\ shown.by # "none")
    => \A f \in DOMAIN shown \ {"by"} : shown[f] = Figures(call.val)[f]

\* no revenue: the sheet says '0%' where the engine says '0.0'
C23_Witness ==
  /\ call.st = "returned"
  /\ shown.by = "exportToExcel"
  /\ call.val.revenue = Zero
  /\ call.val.grossMargin = Str("0.0")
  /\ shown.grossMargin = Str("0%")

\* revenue 2500 in two categories and two expense groups: the PDF report
\* and the engine agree on every figure
C23_WitnessAgree ==
  /\ call.st = "returned"
  /\ shown.by = "generatePLReport"
  /\ shown.revenue = Num(2500)
  /\ Len(shown.categoryBreakdown) = 2
  /\ Len(shown.expenseBreakdown) = 2
  /\ \A f \in DOMAIN shown \ {"by"} : shown[f] = Figures(call.val)[f]

====
